---- MODULE Spec2Model ----
(***************************************************************************)
(* Model of openguard's per-guild configuration / secret store              *)
(* (database/operations.py) and of the webhook event relay                  *)
(* (cogs/logging_cog.py).                                                   *)
(*                                                                          *)
(* Every coroutine is a process; one action is the code between two         *)
(* awaits, with the awaited call's effect taken atomically.  The code       *)
(* from a coroutine's entry up to and including its first awaited call is   *)
(* the action named after the coroutine.                                    *)
(***************************************************************************)
EXTENDS Integers, Sequences, FiniteSets, TLC

\* Bound: number of store operations started in one behaviour.
MaxOps == 3

Tenants == {1}
\* Guilds that hold an API key.
KeyTenants == {1, 2}
Procs == {"p1", "p2"}
Namespaces == {"config", "setting", "botdetect_config"}
\* Keys callers of the store use, and the key the delivery target is kept under.
UserKeys == {"k"}
WebhookKey == "logging_webhook_url"
ConfigKeys == UserKeys \cup {WebhookKey}
\* URLs of the webhooks the platform creates.
Urls == {"https://hook.example/a"}

(***************************************************************************)
(* Python values.  A value is a record [ty, s]; s is the text of a str or   *)
(* an int, "true"/"false" of a bool.                                        *)
(***************************************************************************)
PyNone == [ty |-> "none", s |-> ""]
PyStr(x) == [ty |-> "str", s |-> x]
PyInt(x) == [ty |-> "int", s |-> x]
PyBool(b) == [ty |-> "bool", s |-> IF b THEN "true" ELSE "false"]
PyTrue == PyBool(TRUE)
PyFalse == PyBool(FALSE)

\* JSON values a caller stores: null, a number, and a string that reads as
\* that number once its quotes are lost.
JsonValues == {PyNone, PyInt("1"), PyStr("1")}
\* Defaults a caller passes to a get.
Defaults == {PyNone, PyStr("dflt")}
\* Every JSON document of the model (what json.loads can produce).
JsonUniverse == JsonValues \cup {PyTrue, PyFalse, PyStr("dflt")} \cup {PyStr(u) : u \in Urls}

\* json.dumps(value)
json_dumps(v) ==
  CASE v.ty = "none" -> "null"
    [] v.ty = "bool" -> v.s
    [] v.ty = "int" -> v.s
    [] v.ty = "str" -> "\"" \o v.s \o "\""

\* json.loads(text) succeeds
json_decodable(text) == \E v \in JsonUniverse : json_dumps(v) = text

\* json.loads(text), for a text it decodes
json_loads(text) == CHOOSE v \in JsonUniverse : json_dumps(v) = text

\* A faulty variant of ParseValue: the column's text is returned undecoded.
ParseValueRaw(value) == value

\* The "Parse JSON if it's a string" block of the getters: a str column is
\* decoded; a text json.loads rejects is kept as it is.
ParseValue(value) ==
  IF value.ty = "str" /\ json_decodable(value.s) THEN json_loads(value.s) ELSE value

(***************************************************************************)
(* Cache keys: f"<domain>:{guild_id}:{key}".                                *)
(***************************************************************************)
IdStr(n) == <<"0", "1", "2", "3", "4", "5", "6", "7", "8", "9">>[n + 1]

CachePrefix(ns) ==
  CASE ns = "config" -> "guild_config"
    [] ns = "setting" -> "guild_setting"
    [] ns = "botdetect_config" -> "botdetect_config"

\* A faulty variant of CfgCacheKey: the guild id is left out of the key.
CfgCacheKeyNoGuild(ns, t, k) == CachePrefix(ns) \o ":" \o k

CfgCacheKey(ns, t, k) == CachePrefix(ns) \o ":" \o IdStr(t) \o ":" \o k
ApiCacheKey(t) == "guild_api_key:" \o IdStr(t)

CfgRows == Namespaces \X Tenants \X ConfigKeys
\* ALL_EVENT_KEYS, cut to the keys of the six listeners.
ALL_EVENT_KEYS ==
  {"member_join", "member_remove", "member_ban_event", "member_unban",
   "message_edit", "message_delete"}
ToggleKeys == {"message_delete", "member_join"}
ToggleRows == Tenants \X ALL_EVENT_KEYS
CacheKeys == {CfgCacheKey(r[1], r[2], r[3]) : r \in CfgRows} \cup {ApiCacheKey(t) : t \in KeyTenants}

\* No cache entry / no store row.
Absent == [ty |-> "absent", s |-> ""]
NoRow == "NOROW"

\* Outcomes of one call to the store adapter: done, reported as a failure
\* (False / no rows), or an exception.
StoreOutcomes == {"ok", "fail", "raise"}

VARIABLES
  cfg,        \* guild_config / guild_settings / botdetect_config: row -> JSON text
  toggles,    \* log_event_toggles: <<guild, event key>> -> enabled
  creds,      \* guild_api_keys: guild -> row
  cache,      \* cache key -> value
  cacheUp,    \* whether the cache backend answers
  encKey,     \* the process's ENCRYPTION_KEY
  module,     \* database.operations: "importing", "loaded" or "failed"
  embed,      \* the view a message listener built last: its inputs and fields
  life,       \* the cog's startup: bot readiness, startup task, on_ready, poller
  audit,      \* the audit correlation check made last: its inputs and result
  procs,      \* the coroutines
  ops,        \* operations started so far
  persisted,  \* history: <<row, value>> pairs whose upsert succeeded
  lastOK,     \* history: row -> value of the last set that returned True
  lastToggle, \* history: toggle row -> flag of the last upsert that succeeded
  lastCred,   \* history: guild -> provider and key_data last upserted
  disabledOnce, \* history: toggle rows an upsert has ever set to disabled
  session,    \* LoggingCog.session: "none", "open" or "closed"
  loaded,     \* whether the cog's listeners are registered
  evs,        \* the listener coroutines
  cmd,        \* the slash command coroutine
  calls       \* history: the webhook sends made

storeVars == <<cfg, toggles, creds>>
histVars == <<persisted, lastOK, lastToggle, lastCred, disabledOnce>>
relayVars == <<session, loaded, evs, cmd, calls>>
vars == <<cfg, toggles, creds, cache, cacheUp, audit, encKey, module, embed, life, procs, ops, persisted, lastOK,
          lastToggle, lastCred, disabledOnce, session, loaded, evs, cmd, calls>>

EvProcs == {"e1"}

\* The cog before __init__ has scheduled its startup task.  orphans counts
\* the open sessions self.session no longer refers to, starts the calls of
\* poll_audit_log.start().  For one guild of the platform: member, whether
\* the bot is in it; ids, its entry in last_audit_log_ids ("absent", "none"
\* for None, "id"); join, where on_guild_join for it stands.
IdleLife ==
  [ready |-> TRUE, task |-> "done", lst |-> "done", poller |-> FALSE, orphans |-> 0,
   starts |-> 0, member |-> FALSE, ids |-> "absent", join |-> "idle"]

\* No audit correlation check made yet.
IdleAudit ==
  [h |-> "none", log |-> <<>>, action |-> "none", target_id |-> 0, max_age |-> 0,
   out |-> "none", res |-> FALSE]

\* No view built yet.
IdleEmbed == [h |-> "none", before |-> <<>>, after |-> <<>>, fields |-> <<>>]

IdleProc ==
  [op |-> "none", pc |-> "idle", ns |-> "config", t |-> 1, k |-> "k",
   v |-> PyNone, d |-> PyNone, loc |-> PyNone, res |-> PyNone, rmap |-> <<>>,
   out |-> "none", hit |-> FALSE, err |-> FALSE, raised |-> FALSE]

\* What the listeners' own tests look at in an event: whether the message
\* is in a guild, whether its author is a bot, whether an edit left the
\* content as it was.  A member event has nothing they test.
MemberPayload == [in_guild |-> TRUE, author_bot |-> FALSE, same_content |-> FALSE]

\* A listener coroutine: the listener, its guild and event key, where it
\* stands, how it ended, the webhook sends it made, whether an exception
\* left it; and what it saw on the way: the outcomes of its lookups, the
\* stored toggle and the session at the toggle check, the URL it sent to.
IdleEv ==
  [t |-> 1, ek |-> "none", pc |-> "idle", status |-> "none", sent |-> 0,
   raised |-> FALSE, had |-> FALSE, lost |-> FALSE, tog |-> Absent,
   sess |-> "none", url |-> PyNone, exc |-> "none", payload |-> MemberPayload]

\* A slash command coroutine.
IdleCmd ==
  [c |-> "none", t |-> 1, pc |-> "idle", ek |-> "none", new |-> PyNone,
   url |-> PyNone, out |-> "none", reply |-> "none"]

\* A fresh process and an empty cache; no configuration, no toggles.
InitRest ==
  /\ cfg = [r \in CfgRows |-> NoRow]
  /\ toggles = [r \in ToggleRows |-> Absent]
  /\ embed = IdleEmbed
  /\ audit = IdleAudit
  /\ cache = [c \in CacheKeys |-> Absent]
  /\ procs = [p \in Procs |-> IdleProc]
  /\ ops = 0
  /\ persisted = {}
  /\ lastOK = [r \in CfgRows |-> Absent]
  /\ lastToggle = [r \in ToggleRows |-> Absent]
  /\ session = "none"
  /\ loaded = TRUE
  /\ evs = [e \in EvProcs |-> IdleEv]
  /\ cmd = IdleCmd
  /\ calls = {}
  /\ disabledOnce = {}

\* database.operations was imported under the key "K1".
Imported == encKey = "K1" /\ module = "loaded"

\* A fresh process over an empty database and an empty cache.
InitStore ==
  /\ InitRest
  /\ life = IdleLife
  /\ Imported
  /\ creds = [t \in KeyTenants |-> Absent]
  /\ lastCred = [t \in KeyTenants |-> Absent]

Init == InitStore /\ cacheUp = TRUE

\* The cache backend is there for the life of the process, or never.
InitSeq == InitStore /\ cacheUp \in BOOLEAN

(***************************************************************************)
(* Cache layer (database/cache.py): get / set / delete of opaque values.    *)
(* An unavailable cache is an always-miss cache whose writes are lost.      *)
(***************************************************************************)
get_cache(key) == IF cacheUp /\ cache[key] # Absent THEN cache[key] ELSE PyNone
set_cache(key, value) == IF cacheUp THEN [cache EXCEPT ![key] = value] ELSE cache
delete_cache(key) == IF cacheUp THEN [cache EXCEPT ![key] = Absent] ELSE cache

\* A faulty variant of insert_or_update: the statement answers but the
\* table is not written.
insert_or_update_lost(rows, key, value) == rows

\* insert_or_update(table, conflict_columns, data), when it succeeds: the
\* row of the key is inserted, or replaced when there is one.
insert_or_update(rows, key, value) == [rows EXCEPT ![key] = value]

\* A caller invokes an operation of the module, which it has imported.
CanStart(p) == module = "loaded" /\ procs[p].pc \in {"idle", "done"} /\ ops < MaxOps

Done(p, fields) == [fields EXCEPT !.pc = "done"]

\* A faulty variant of Except: no handler, the exception leaves the coroutine.
ExceptPropagates(call, marker) == [call EXCEPT !.pc = "done", !.raised = TRUE]

\* except Exception as e: log.error(...); return <marker>
Except(call, marker) == [call EXCEPT !.pc = "done", !.res = marker, !.raised = FALSE]

\* A faulty variant of AfterUpsert: the cache is written whatever the upsert said.
AfterUpsertAlways(success) == "set_cache"

\* if success: await set_cache(...)
AfterUpsert(success) == IF success THEN "set_cache" ELSE "done"

(***************************************************************************)
(* get_guild_config / get_guild_setting / get_botdetect_config              *)
(***************************************************************************)
\* Entry of a getter up to the cache lookup: a cached value that is not
\* None is returned at once.
CfgGetEntry(p, ns, t, k, d) ==
  /\ CanStart(p)
  /\ ops' = ops + 1
  /\ LET cached == get_cache(CfgCacheKey(ns, t, k))
         call == [IdleProc EXCEPT !.op = "get", !.ns = ns, !.t = t, !.k = k, !.d = d]
     IN procs' = [procs EXCEPT ![p] =
          IF cached # PyNone
          THEN Done(p, [call EXCEPT !.res = cached, !.hit = TRUE])
          ELSE [call EXCEPT !.pc = "query"]]
  /\ UNCHANGED <<storeVars, cache, cacheUp, audit, encKey, module, embed, life, histVars, relayVars>>

get_guild_config(p, t, k, d) == CfgGetEntry(p, "config", t, k, d)
get_guild_setting(p, t, k, d) == CfgGetEntry(p, "setting", t, k, d)
get_botdetect_config(p, t, k, d) == CfgGetEntry(p, "botdetect_config", t, k, d)

\* A faulty variant of CfgGetMiss: the default goes on to the cache.
CfgGetMissCached(p, me, o) == [me EXCEPT !.pc = "set_cache", !.out = o, !.loc = me.d]

\* return default (no row, or no answer)
CfgGetMiss(p, me, o) == Done(p, [me EXCEPT !.out = o, !.res = me.d])

\* The SELECT of a getter: a row's value is parsed and goes on to the cache;
\* no row, a failure or an exception give the caller's default.
CfgGetQuery(p) ==
  /\ procs[p].op = "get" /\ procs[p].pc = "query"
  /\ \E o \in StoreOutcomes :
       LET me == procs[p]
           row == cfg[<<me.ns, me.t, me.k>>]
       IN procs' = [procs EXCEPT ![p] =
            IF o = "raise" THEN Except([me EXCEPT !.out = o], me.d)
            ELSE IF o = "ok" /\ row # NoRow
            THEN [me EXCEPT !.pc = "set_cache", !.out = o, !.loc = ParseValue(PyStr(row))]
            ELSE CfgGetMiss(p, me, o)]
  /\ UNCHANGED <<storeVars, cache, cacheUp, audit, encKey, module, embed, life, ops, histVars, relayVars>>

\* set_cache(cache_key, value); return value
CfgGetFill(p) ==
  /\ procs[p].op = "get" /\ procs[p].pc = "set_cache"
  /\ LET me == procs[p]
     IN /\ cache' = set_cache(CfgCacheKey(me.ns, me.t, me.k), me.loc)
        /\ procs' = [procs EXCEPT ![p] = Done(p, [me EXCEPT !.res = me.loc])]
  /\ UNCHANGED <<storeVars, cacheUp, audit, encKey, module, embed, life, ops, histVars, relayVars>>

(***************************************************************************)
(* set_guild_config / set_guild_setting / set_botdetect_config              *)
(***************************************************************************)
\* Entry of a setter up to the upsert: json.dumps, insert_or_update.
CfgSetEntry(p, ns, t, k, v) ==
  /\ CanStart(p)
  /\ ops' = ops + 1
  /\ \E o \in StoreOutcomes :
       LET call == [IdleProc EXCEPT !.op = "set", !.ns = ns, !.t = t, !.k = k,
                                    !.v = v, !.out = o]
       IN /\ cfg' = IF o = "ok" THEN insert_or_update(cfg, <<ns, t, k>>, json_dumps(v)) ELSE cfg
          /\ persisted' = IF o = "ok" THEN persisted \cup {<<<<ns, t, k>>, v>>} ELSE persisted
          /\ procs' = [procs EXCEPT ![p] =
               IF o = "raise" THEN Except(call, PyFalse)
               ELSE [call EXCEPT !.pc = AfterUpsert(o = "ok"), !.res = PyBool(o = "ok")]]
  /\ UNCHANGED <<toggles, creds, cache, cacheUp, audit, encKey, module, embed, life, lastOK, lastToggle, lastCred, disabledOnce, relayVars>>

set_guild_config(p, t, k, v) == CfgSetEntry(p, "config", t, k, v)
set_guild_setting(p, t, k, v) == CfgSetEntry(p, "setting", t, k, v)
set_botdetect_config(p, t, k, v) == CfgSetEntry(p, "botdetect_config", t, k, v)

\* A faulty variant of CfgSetFill: the set reports whether the cache took the value.
CfgSetFillCacheStatus(p) ==
  /\ procs[p].op = "set" /\ procs[p].pc = "set_cache"
  /\ LET me == procs[p]
     IN /\ cache' = set_cache(CfgCacheKey(me.ns, me.t, me.k), me.v)
        /\ procs' = [procs EXCEPT ![p] = Done(p, [me EXCEPT !.res = PyBool(cacheUp)])]
        /\ lastOK' = lastOK
  /\ UNCHANGED <<storeVars, cacheUp, audit, encKey, module, embed, life, ops, persisted, lastToggle, lastCred, disabledOnce, relayVars>>

\* if success: set_cache(key, value); return success
CfgSetFill(p) ==
  /\ procs[p].op = "set" /\ procs[p].pc = "set_cache"
  /\ LET me == procs[p]
     IN /\ cache' = set_cache(CfgCacheKey(me.ns, me.t, me.k), me.v)
        /\ procs' = [procs EXCEPT ![p] = Done(p, me)]
        /\ lastOK' = IF me.res = PyTrue THEN [lastOK EXCEPT ![<<me.ns, me.t, me.k>>] = me.v]
                      ELSE lastOK
  /\ UNCHANGED <<storeVars, cacheUp, audit, encKey, module, embed, life, ops, persisted, lastToggle, lastCred, disabledOnce, relayVars>>

(***************************************************************************)
(* get_all_guild_config / get_all_botdetect_config: no cache, one SELECT.   *)
(***************************************************************************)
\* A faulty variant of CfgAllRows: a key's cache entry is preferred to its row.
CfgAllRowsCached(ns, t) ==
  [k \in {x \in ConfigKeys : cfg[<<ns, t, x>>] # NoRow} |->
     IF get_cache(CfgCacheKey(ns, t, k)) # PyNone THEN get_cache(CfgCacheKey(ns, t, k))
     ELSE ParseValue(PyStr(cfg[<<ns, t, k>>]))]

\* The rows of a guild in one table, each value parsed.
CfgAllRows(ns, t) ==
  [k \in {x \in ConfigKeys : cfg[<<ns, t, x>>] # NoRow} |-> ParseValue(PyStr(cfg[<<ns, t, k>>]))]

\* A failed query has no rows to iterate: the loop raises, the handler
\* returns {}.
CfgGetAll(p, ns, t) ==
  /\ CanStart(p)
  /\ ops' = ops + 1
  /\ \E o \in StoreOutcomes :
       LET call == [IdleProc EXCEPT !.op = "get_all", !.ns = ns, !.t = t, !.out = o]
       IN procs' = [procs EXCEPT ![p] =
            IF o = "ok" THEN Done(p, [call EXCEPT !.rmap = CfgAllRows(ns, t)])
            ELSE Except(call, PyNone)]
  /\ UNCHANGED <<storeVars, cache, cacheUp, audit, encKey, module, embed, life, histVars, relayVars>>

get_all_guild_config(p, t) == CfgGetAll(p, "config", t)
get_all_botdetect_config(p, t) == CfgGetAll(p, "botdetect_config", t)

(***************************************************************************)
(* Log event toggles: no cache on either path.                              *)
(***************************************************************************)
\* A faulty variant of ToggleResult: the stored flag is ignored.
ToggleResultDefault(row, default_enabled) == PyBool(default_enabled)

\* result["enabled"] if result else default_enabled
ToggleResult(row, default_enabled) ==
  IF row # Absent THEN row ELSE PyBool(default_enabled)

get_log_event_enabled(p, t, ek, default_enabled) ==
  /\ CanStart(p)
  /\ ops' = ops + 1
  /\ \E o \in StoreOutcomes :
       LET call == [IdleProc EXCEPT !.op = "get_toggle", !.t = t, !.k = ek,
                                    !.d = PyBool(default_enabled), !.out = o]
       IN procs' = [procs EXCEPT ![p] =
            IF o = "raise" THEN Except(call, PyBool(default_enabled))
            ELSE Done(p, [call EXCEPT !.res =
                   ToggleResult(IF o = "ok" THEN toggles[<<t, ek>>] ELSE Absent,
                                default_enabled)])]
  /\ UNCHANGED <<storeVars, cache, cacheUp, audit, encKey, module, embed, life, histVars, relayVars>>

set_log_event_enabled(p, t, ek, enabled) ==
  /\ CanStart(p)
  /\ ops' = ops + 1
  /\ \E o \in StoreOutcomes :
       LET call == [IdleProc EXCEPT !.op = "set_toggle", !.t = t, !.k = ek,
                                    !.v = PyBool(enabled), !.out = o]
       IN /\ toggles' = IF o = "ok" THEN insert_or_update(toggles, <<t, ek>>, PyBool(enabled))
                        ELSE toggles
          /\ lastToggle' = IF o = "ok" THEN [lastToggle EXCEPT ![<<t, ek>>] = PyBool(enabled)]
                           ELSE lastToggle
          /\ disabledOnce' = IF o = "ok" /\ ~enabled
                             THEN disabledOnce \cup {<<t, ek>>} ELSE disabledOnce
          /\ procs' = [procs EXCEPT ![p] =
               IF o = "raise" THEN Except(call, PyFalse)
               ELSE Done(p, [call EXCEPT !.res = PyBool(o = "ok")])]
  /\ UNCHANGED <<cfg, creds, cache, cacheUp, audit, encKey, module, embed, life, persisted, lastOK, lastCred, relayVars>>

get_all_log_event_toggles(p, t) ==
  /\ CanStart(p)
  /\ ops' = ops + 1
  /\ \E o \in StoreOutcomes :
       LET call == [IdleProc EXCEPT !.op = "get_all_toggles", !.t = t, !.out = o]
           rows == [ek \in {x \in ToggleKeys : toggles[<<t, x>>] # Absent} |-> toggles[<<t, ek>>]]
       IN procs' = [procs EXCEPT ![p] =
            IF o = "ok" THEN Done(p, [call EXCEPT !.rmap = rows]) ELSE Except(call, PyNone)]
  /\ UNCHANGED <<storeVars, cache, cacheUp, audit, encKey, module, embed, life, histVars, relayVars>>

(***************************************************************************)
(* Encryption: Fernet under the process's key.  A token opens only under    *)
(* the key that made it.                                                    *)
(***************************************************************************)
encrypt_data(data) == [ty |-> "fernet", key |-> encKey, pt |-> data]

\* A faulty variant of decrypt_ok: a token opens under any key.
decrypt_ok_any_key(token) == TRUE

decrypt_ok(token) == token.key = encKey
decrypt_data(token) == token.pt

\* What the environment variable ENCRYPTION_KEY holds when the process
\* starts: nothing (getenv gives None), the empty string, or a key.
EnvKeys == {"<unset>", "", "K1", "K2"}

\* A faulty variant of KeyMissing: the import does not look at the key.
KeyMissingNever(k) == FALSE

\* not ENCRYPTION_KEY
KeyMissing(k) == k \in {"<unset>", ""}

\* Import of database.operations: raise ValueError without a key, else
\* build the Fernet object.
ImportModule ==
  /\ module = "importing"
  /\ module' = IF KeyMissing(encKey) THEN "failed" ELSE "loaded"
  /\ UNCHANGED <<storeVars, cache, cacheUp, audit, encKey, embed, life, procs, ops, histVars, relayVars>>

\* The strings callers encrypt.
Payloads == {PyStr("sk-1"), PyStr("")}

\* The tokens at hand: in the rows of the store, and returned to callers.
TokensAtHand ==
  {creds[t].encrypted_api_key :
     t \in {u \in KeyTenants : creds[u] # Absent /\ creds[u].encrypted_api_key # PyNone}}
  \cup {creds[t].encrypted_github_auth_info.data :
     t \in {u \in KeyTenants : creds[u] # Absent /\ creds[u].encrypted_github_auth_info # PyNone}}
  \cup {procs[q].res : q \in {r \in Procs : procs[r].op = "encrypt"}}

\* A call of encrypt_data
encrypt_call(p, data) ==
  /\ CanStart(p)
  /\ ops' = ops + 1
  /\ procs' = [procs EXCEPT ![p] =
       Done(p, [IdleProc EXCEPT !.op = "encrypt", !.v = data, !.res = encrypt_data(data)])]
  /\ UNCHANGED <<storeVars, cache, cacheUp, audit, encKey, module, embed, life, histVars, relayVars>>

\* A call of decrypt_data: InvalidToken leaves the function.
decrypt_call(p, token) ==
  /\ CanStart(p)
  /\ ops' = ops + 1
  /\ procs' = [procs EXCEPT ![p] =
       LET call == [IdleProc EXCEPT !.op = "decrypt", !.v = token]
       IN IF decrypt_ok(token) THEN Done(p, [call EXCEPT !.res = decrypt_data(token)])
          ELSE Done(p, [call EXCEPT !.raised = TRUE])]
  /\ UNCHANGED <<storeVars, cache, cacheUp, audit, encKey, module, embed, life, histVars, relayVars>>

(***************************************************************************)
(* Guild API keys.  key_data is a str or a dict; a dict may hold datetimes. *)
(***************************************************************************)
Providers == {"openai", "github_copilot"}
PyDatetime(iso) == [ty |-> "datetime", s |-> iso]
PyDict(fields) == [ty |-> "dict", f |-> fields]
AuthInfos ==
  {PyDict([token |-> PyStr("gho"), expires_at |-> PyDatetime("2026-01-01T00:00:00")]),
   PyDict([token |-> PyStr("ghu"), expires_at |-> PyDatetime("2026-01-01T00:00:00"),
           refreshed_at |-> PyDatetime("2025-12-31T00:00:00")])}
KeyDatas == {PyStr("sk-1")} \cup AuthInfos

\* datetime_converter, as json.dumps applies it: a datetime becomes its
\* isoformat() text.
datetime_converter(o) == IF o.ty = "datetime" THEN PyStr(o.s) ELSE PyNone

\* json.dumps(key_data, default=datetime_converter) followed by json.loads:
\* the document the text holds.
AuthDocument(key_data) ==
  PyDict([x \in DOMAIN key_data.f |->
            IF key_data.f[x].ty \in {"str", "int", "bool", "none"} THEN key_data.f[x]
            ELSE datetime_converter(key_data.f[x])])

\* datetime.fromisoformat on the decoded "expires_at"
RestoreExpiry(doc) ==
  IF "expires_at" \in DOMAIN doc.f
  THEN PyDict([doc.f EXCEPT !["expires_at"] = PyDatetime(doc.f["expires_at"].s)])
  ELSE doc

\* fromisoformat raises on anything but an ISO text
RestoreExpiryRaises(doc) ==
  "expires_at" \in DOMAIN doc.f /\ doc.f["expires_at"].ty # "str"

\* A faulty variant of KeyShape: only a string is accepted.
KeyShapeStringOnly(api_provider, key_data) ==
  IF key_data.ty = "str" THEN "plain" ELSE "invalid"

\* Which shape of key_data set_guild_api_key accepts
KeyShape(api_provider, key_data) ==
  IF api_provider = "github_copilot" /\ key_data.ty = "dict" THEN "auth"
  ELSE IF key_data.ty = "str" THEN "plain"
  ELSE "invalid"

\* A faulty variant of ApiKeyRow: a column left out of the upsert keeps
\* what the previous row held.
ApiKeyRowKeepsOld(t, api_provider, key_data) ==
  [guild_id |-> t,
   api_provider |-> api_provider,
   encrypted_api_key |->
     IF KeyShape(api_provider, key_data) = "plain" THEN encrypt_data(key_data)
     ELSE IF creds[t] # Absent THEN creds[t].encrypted_api_key ELSE PyNone,
   encrypted_github_auth_info |->
     IF KeyShape(api_provider, key_data) = "auth"
     THEN [data |-> encrypt_data(AuthDocument(key_data))]
     ELSE IF creds[t] # Absent THEN creds[t].encrypted_github_auth_info ELSE PyNone]

\* The row set_guild_api_key upserts
ApiKeyRow(t, api_provider, key_data) ==
  [guild_id |-> t,
   api_provider |-> api_provider,
   encrypted_api_key |->
     IF KeyShape(api_provider, key_data) = "plain" THEN encrypt_data(key_data) ELSE PyNone,
   encrypted_github_auth_info |->
     IF KeyShape(api_provider, key_data) = "auth"
     THEN [data |-> encrypt_data(AuthDocument(key_data))] ELSE PyNone]

\* A faulty variant of ApiKeyAfterUpsert: the call goes on as after a
\* successful upsert whatever the upsert said.
ApiKeyAfterUpsertAlways(call, success) == [call EXCEPT !.pc = "del_cache"]

\* success = await insert_or_update(...); if success: await delete_cache(...);
\* return success
ApiKeyAfterUpsert(call, success) ==
  IF success THEN [call EXCEPT !.pc = "del_cache"]
  ELSE [call EXCEPT !.pc = "done", !.res = PyFalse]

set_guild_api_key(p, t, api_provider, key_data) ==
  /\ CanStart(p)
  /\ ops' = ops + 1
  /\ \E o \in StoreOutcomes :
       LET call == [IdleProc EXCEPT !.op = "set_key", !.t = t, !.k = api_provider,
                                    !.v = key_data]
       IN IF KeyShape(api_provider, key_data) = "invalid"
          THEN /\ o = "ok"
               /\ procs' = [procs EXCEPT ![p] = Done(p, [call EXCEPT !.res = PyFalse])]
               /\ UNCHANGED creds
               /\ UNCHANGED lastCred
          ELSE IF o = "ok"
          THEN /\ creds' = [creds EXCEPT ![t] = ApiKeyRow(t, api_provider, key_data)]
               /\ lastCred' = [lastCred EXCEPT ![t] = [api_provider |-> api_provider, key_data |-> key_data]]
               /\ procs' = [procs EXCEPT ![p] = ApiKeyAfterUpsert([call EXCEPT !.out = o], TRUE)]
          ELSE /\ procs' = [procs EXCEPT ![p] =
                    IF o = "raise" THEN Except([call EXCEPT !.out = o], PyFalse)
                    ELSE ApiKeyAfterUpsert([call EXCEPT !.out = o], FALSE)]
               /\ UNCHANGED <<creds, lastCred>>
  /\ UNCHANGED <<cfg, toggles, cache, cacheUp, audit, encKey, module, embed, life, persisted, lastOK, lastToggle, disabledOnce, relayVars>>

\* if success: delete_cache(key); return success  (set and remove)
ApiKeyInvalidate(p) ==
  /\ procs[p].op \in {"set_key", "remove_key"} /\ procs[p].pc = "del_cache"
  /\ cache' = delete_cache(ApiCacheKey(procs[p].t))
  /\ procs' = [procs EXCEPT ![p] = Done(p, [procs[p] EXCEPT !.res = PyTrue])]
  /\ UNCHANGED <<storeVars, cacheUp, audit, encKey, module, embed, life, ops, histVars, relayVars>>

\* Entry of get_guild_api_key: a truthy cache entry is returned at once.
get_guild_api_key(p, t) ==
  /\ CanStart(p)
  /\ ops' = ops + 1
  /\ LET cached == get_cache(ApiCacheKey(t))
         call == [IdleProc EXCEPT !.op = "get_key", !.t = t]
     IN procs' = [procs EXCEPT ![p] =
          IF cached # PyNone
          THEN Done(p, [call EXCEPT !.res = cached, !.hit = TRUE])
          ELSE [call EXCEPT !.pc = "query"]]
  /\ UNCHANGED <<storeVars, cache, cacheUp, audit, encKey, module, embed, life, histVars, relayVars>>

\* A faulty variant of ApiKeyDecodeRaises: the rows of all guilds are decoded
\* together, so one unreadable row fails the get of every guild.
ApiKeyDecodeRaisesAny(row) ==
  \E t \in KeyTenants :
    /\ creds[t] # Absent
    /\ \/ creds[t].encrypted_api_key # PyNone /\ ~decrypt_ok(creds[t].encrypted_api_key)
       \/ /\ creds[t].encrypted_github_auth_info # PyNone
          /\ ~decrypt_ok(creds[t].encrypted_github_auth_info.data)

\* Whether decoding a row raises: a token of another key, or an expiry that
\* is no ISO text.
ApiKeyDecodeRaises(row) ==
  \/ row.encrypted_api_key # PyNone /\ ~decrypt_ok(row.encrypted_api_key)
  \/ /\ row.encrypted_github_auth_info # PyNone
     /\ \/ ~decrypt_ok(row.encrypted_github_auth_info.data)
        \/ RestoreExpiryRaises(decrypt_data(row.encrypted_github_auth_info.data))

\* GuildAPIKey(...) built from a row
GuildAPIKey(row) ==
  [ty |-> "GuildAPIKey",
   guild_id |-> row.guild_id,
   api_provider |-> row.api_provider,
   api_key |->
     IF row.encrypted_api_key # PyNone THEN decrypt_data(row.encrypted_api_key) ELSE PyNone,
   github_auth_info |->
     IF row.encrypted_github_auth_info # PyNone
     THEN RestoreExpiry(decrypt_data(row.encrypted_github_auth_info.data)) ELSE PyNone]

\* The SELECT of get_guild_api_key and the decoding of its row
ApiKeyQuery(p) ==
  /\ procs[p].op = "get_key" /\ procs[p].pc = "query"
  /\ \E o \in StoreOutcomes :
       LET me == procs[p]
           row == creds[me.t]
       IN procs' = [procs EXCEPT ![p] =
            IF o = "raise" THEN Except([me EXCEPT !.out = o], PyNone)
            ELSE IF o = "fail" \/ row = Absent THEN Done(p, [me EXCEPT !.out = o, !.res = PyNone])
            ELSE IF ApiKeyDecodeRaises(row) THEN Except([me EXCEPT !.out = o, !.err = TRUE], PyNone)
            ELSE [me EXCEPT !.pc = "set_cache", !.out = o, !.loc = GuildAPIKey(row)]]
  /\ UNCHANGED <<storeVars, cache, cacheUp, audit, encKey, module, embed, life, ops, histVars, relayVars>>

\* set_cache(cache_key, guild_key.__dict__); return guild_key
ApiKeyFill(p) ==
  /\ procs[p].op = "get_key" /\ procs[p].pc = "set_cache"
  /\ cache' = set_cache(ApiCacheKey(procs[p].t), procs[p].loc)
  /\ procs' = [procs EXCEPT ![p] = Done(p, [procs[p] EXCEPT !.res = procs[p].loc])]
  /\ UNCHANGED <<storeVars, cacheUp, audit, encKey, module, embed, life, ops, histVars, relayVars>>

\* Entry of remove_guild_api_key up to the DELETE
remove_guild_api_key(p, t) ==
  /\ CanStart(p)
  /\ ops' = ops + 1
  /\ \E o \in StoreOutcomes :
       LET call == [IdleProc EXCEPT !.op = "remove_key", !.t = t, !.out = o]
       IN IF o = "ok"
          THEN /\ creds' = [creds EXCEPT ![t] = Absent]
               /\ lastCred' = [lastCred EXCEPT ![t] = Absent]
               /\ procs' = [procs EXCEPT ![p] = [call EXCEPT !.pc = "del_cache"]]
          ELSE /\ procs' = [procs EXCEPT ![p] =
                    IF o = "raise" THEN Except(call, PyFalse)
                    ELSE Done(p, [call EXCEPT !.res = PyFalse])]
               /\ UNCHANGED <<creds, lastCred>>
  /\ UNCHANGED <<cfg, toggles, cache, cacheUp, audit, encKey, module, embed, life, persisted, lastOK, lastToggle, disabledOnce, relayVars>>

(***************************************************************************)
(* Environment of the store: the ciphertext of a guild's row becomes one    *)
(* the process's key does not open, because it was written under a retired  *)
(* key or because it was corrupted.                                         *)
(***************************************************************************)
UnreadableCauses == {"retired_key", "garbled"}
Unreadable(token, cause) == [token EXCEPT !.key = cause]

StoreRowUnreadable(t) ==
  /\ creds[t] # Absent
  /\ \E cause \in UnreadableCauses :
       creds' = [creds EXCEPT ![t] =
         [@ EXCEPT !.encrypted_api_key = IF @ # PyNone THEN Unreadable(@, cause) ELSE @,
                   !.encrypted_github_auth_info =
                     IF @ # PyNone THEN [data |-> Unreadable(@.data, cause)] ELSE @]]
  /\ creds' # creds
  /\ UNCHANGED <<cfg, toggles, cache, cacheUp, audit, encKey, module, embed, life, procs, ops, histVars, relayVars>>

(***************************************************************************)
(* Environment of the cache: TTL expiry or eviction of an entry.            *)
(***************************************************************************)
Evict ==
  /\ \E c \in CacheKeys : cache[c] # Absent /\ cache' = [cache EXCEPT ![c] = Absent]
  /\ UNCHANGED <<storeVars, cacheUp, audit, encKey, module, embed, life, procs, ops, histVars, relayVars>>

(***************************************************************************)
(* The settings manager (cogs/logging_helpers/settings_manager.py): the     *)
(* relay's calls into the store.  For the relay a store operation is one    *)
(* awaited call; the operators below run the operation above to its end.    *)
(***************************************************************************)
\* not value
Falsy(value) == value \in {PyNone, PyFalse, PyStr(""), PyInt("0")}

\* get_guild_setting run to its end: the result, the cache it leaves, the
\* outcome of its SELECT ("none" when the cache answered).
CfgGetRun(ns, t, k, d, o) ==
  LET key == CfgCacheKey(ns, t, k)
      cached == get_cache(key)
      row == cfg[<<ns, t, k>>]
      handled == Except(IdleProc, d)
  IN IF cached # PyNone THEN [res |-> cached, cache |-> cache, out |-> "none", raised |-> FALSE]
     ELSE IF o = "raise"
     THEN [res |-> handled.res, cache |-> cache, out |-> o, raised |-> handled.raised]
     ELSE IF o = "ok" /\ row # NoRow
     THEN [res |-> ParseValue(PyStr(row)), cache |-> set_cache(key, ParseValue(PyStr(row))),
           out |-> o, raised |-> FALSE]
     ELSE [res |-> d, cache |-> cache, out |-> o, raised |-> FALSE]

get_logging_webhook(t, o) == CfgGetRun("setting", t, WebhookKey, PyNone, o)

\* get_log_event_enabled run to its end
is_log_event_enabled(t, ek, default_enabled, o) ==
  LET handled == Except(IdleProc, PyBool(default_enabled))
  IN IF o = "raise" THEN [res |-> handled.res, out |-> o, raised |-> handled.raised]
     ELSE [res |-> ToggleResult(IF o = "ok" THEN toggles[<<t, ek>>] ELSE Absent, default_enabled),
           out |-> o, raised |-> FALSE]

(***************************************************************************)
(* LoggingCog: session, listeners, delivery.                                *)
(***************************************************************************)
Handlers ==
  {"on_member_join", "on_member_remove", "on_member_ban", "on_member_unban",
   "on_message_delete", "on_message_edit"}

\* event_key = "..." of each listener
EventKeyOf(h) ==
  CASE h = "on_member_join" -> "member_join"
    [] h = "on_member_remove" -> "member_remove"
    [] h = "on_member_ban" -> "member_ban_event"
    [] h = "on_member_unban" -> "member_unban"
    [] h = "on_message_delete" -> "message_delete"
    [] h = "on_message_edit" -> "message_edit"

\* What webhook.send can end with.
SendOutcomes ==
  {"ok", "ValueError", "Forbidden", "NotFound", "HTTPException", "ClientError", "Other"}

\* The tenant has a delivery target: a stored webhook URL.
HasTarget(t) == cfg[<<"setting", t, WebhookKey>>] \in {json_dumps(PyStr(u)) : u \in Urls}

\* A lookup the store did not answer (and the cache could not).
Unanswered(out) == out \notin {"none", "ok"}

\* self.session = aiohttp.ClientSession()
initialize_cog ==
  /\ loaded /\ session = "none"
  /\ session' = "open"
  /\ UNCHANGED <<storeVars, cache, cacheUp, audit, encKey, module, embed, life, procs, ops, histVars,
                 loaded, evs, cmd, calls>>

\* if self.session and not self.session.closed: await self.session.close()
cog_unload ==
  /\ loaded
  /\ loaded' = FALSE
  /\ life' = [life EXCEPT !.poller = FALSE]
  /\ session' = IF session = "open" THEN "closed" ELSE session
  /\ UNCHANGED <<storeVars, cache, cacheUp, audit, encKey, module, embed, procs, ops, histVars,
                 evs, cmd, calls>>

(***************************************************************************)
(* Startup of the cog: the task __init__ schedules, the on_ready listener.  *)
(***************************************************************************)
\* initialize_cog called by the startup task ("task") or by on_ready
\* ("lst"), up to the first await of initialize_audit_log_ids or, when that
\* never suspends, to the start of the poller.
\* initialize_audit_log_ids reaches the guild when the bot is in it and
\* the map has no entry for it (for_g): it suspends on the guild's audit
\* log ("ids_g") or, without the permission, stores None; it may suspend on
\* another guild's ("ids").
initialize_cog_from(who, suspends) ==
  /\ session' = "open"
  /\ \E for_g \in {b \in BOOLEAN : b => (life.member /\ life.ids = "absent")} :
       life' = [life EXCEPT ![who] = IF ~suspends THEN "done"
                                     ELSE IF for_g THEN "ids_g" ELSE "ids",
                          !.ids = IF for_g /\ ~suspends THEN "none" ELSE @,
                          !.poller = @ \/ ~suspends,
                          !.starts = IF ~suspends /\ ~life.poller THEN @ + 1 ELSE @,
                          !.orphans = IF session = "open" THEN @ + 1 ELSE @]

\* The bot becomes ready: wait_until_ready returns, on_ready is dispatched.
BotReady ==
  /\ ~life.ready
  /\ life' = [life EXCEPT !.ready = TRUE]
  /\ UNCHANGED <<storeVars, cache, cacheUp, audit, encKey, module, embed, procs, ops, histVars, relayVars>>

\* The task of __init__: initialize_cog at once when the bot was ready,
\* else after wait_until_ready.
start_audit_log_poller_when_ready ==
  /\ life.task = "wait" /\ life.ready
  /\ \E suspends \in BOOLEAN : initialize_cog_from("task", suspends)
  /\ UNCHANGED <<storeVars, cache, cacheUp, audit, encKey, module, embed, procs, ops, histVars,
                 loaded, evs, cmd, calls>>

\* if self.bot.is_ready() and not self.poll_audit_log.is_running():
\*     await self.initialize_cog()
on_ready ==
  /\ loaded /\ life.ready /\ life.lst = "idle"
  /\ IF ~life.poller
     THEN \E suspends \in BOOLEAN : initialize_cog_from("lst", suspends)
     ELSE life' = [life EXCEPT !.lst = "done"] /\ UNCHANGED session
  /\ UNCHANGED <<storeVars, cache, cacheUp, audit, encKey, module, embed, procs, ops, histVars,
                 loaded, evs, cmd, calls>>

\* A faulty variant of initialize_audit_log_ids: initialize_cog starts the
\* poller without asking whether it runs.
initialize_audit_log_ids_unguarded(who) ==
  /\ life[who] \in {"ids", "ids_g"}
  /\ \E got \in {"id", "none", "empty"} :
       life' = [life EXCEPT ![who] = "done", !.poller = TRUE, !.starts = @ + 1,
                            !.ids = IF life[who] = "ids_g" /\ got # "empty" THEN got ELSE @]
  /\ UNCHANGED <<storeVars, cache, cacheUp, audit, encKey, module, embed, procs, ops, histVars, relayVars>>

\* initialize_audit_log_ids resumes from its fetch and returns to
\* initialize_cog.  The fetch of the guild's audit log gave an entry (its
\* id is stored), raised (None is stored) or gave nothing.  Then
\* if not self.poll_audit_log.is_running(): self.poll_audit_log.start()
initialize_audit_log_ids(who) ==
  /\ life[who] \in {"ids", "ids_g"}
  /\ \E got \in {"id", "none", "empty"} :
       life' = [life EXCEPT ![who] = "done", !.poller = TRUE,
                            !.starts = IF ~life.poller THEN @ + 1 ELSE @,
                            !.ids = IF life[who] = "ids_g" /\ got # "empty" THEN got ELSE @]
  /\ UNCHANGED <<storeVars, cache, cacheUp, audit, encKey, module, embed, procs, ops, histVars, relayVars>>

\* on_guild_join.  Entered (resumes = FALSE): with no entry for the guild,
\* the fetch of its audit log suspends, or None is stored when the bot may
\* not view it.  Resumed from the fetch: the entry's id is stored, None
\* after an exception, nothing for an empty log.
on_guild_join(resumes) ==
  /\ IF ~resumes
     THEN /\ loaded /\ ~life.member /\ life.join \in {"idle", "done"}
          /\ IF life.ids # "absent"
             THEN life' = [life EXCEPT !.member = TRUE, !.join = "done"]
             ELSE \/ life' = [life EXCEPT !.member = TRUE, !.join = "fetch"]
                  \/ life' = [life EXCEPT !.member = TRUE, !.join = "done", !.ids = "none"]
     ELSE /\ life.join = "fetch"
          /\ \E got \in {"id", "none", "empty"} :
               life' = [life EXCEPT !.join = "done", !.ids = IF got # "empty" THEN got ELSE @]
  /\ UNCHANGED <<storeVars, cache, cacheUp, audit, encKey, module, embed, procs, ops, histVars, relayVars>>

\* on_guild_remove: self.last_audit_log_ids.pop(guild.id, None)
on_guild_remove ==
  /\ loaded /\ life.member
  /\ life' = [life EXCEPT !.member = FALSE, !.ids = "absent"]
  /\ UNCHANGED <<storeVars, cache, cacheUp, audit, encKey, module, embed, procs, ops, histVars, relayVars>>

\* A faulty variant of NoTarget: the check is missing.
NoTargetNever(webhook_url) == FALSE

\* if not webhook_url
NoTarget(webhook_url) == Falsy(webhook_url)

\* A faulty variant of EvEnd: a failed send is tried again.
EvEndRetry(me, status) ==
  IF status = "failed" THEN [me EXCEPT !.pc = "send"]
  ELSE [me EXCEPT !.pc = "done", !.status = status]

EvEnd(me, status) == [me EXCEPT !.pc = "done", !.status = status]

\* A listener up to the first lookup of _check_log_enabled.  eligible is
\* the listener's own test of the payload (message listeners only).
Listener(e, h, t, payload, eligible) ==
  /\ loaded /\ evs[e].pc \in {"idle", "done"}
  /\ LET call == [IdleEv EXCEPT !.t = t, !.ek = EventKeyOf(h), !.had = HasTarget(t),
                                !.payload = payload]
     IN IF ~eligible
        THEN /\ evs' = [evs EXCEPT ![e] = EvEnd(call, "ineligible")]
             /\ UNCHANGED cache
        ELSE \E o \in StoreOutcomes :
               LET got == get_logging_webhook(t, o)
                   seen == [call EXCEPT !.lost = Unanswered(got.out), !.raised = got.raised]
               IN /\ cache' = got.cache
                  /\ evs' = [evs EXCEPT ![e] =
                       IF got.raised THEN EvEnd(seen, "raised")
                       ELSE IF NoTarget(got.res) THEN EvEnd(seen, "no_target")
                       ELSE [seen EXCEPT !.pc = "toggle"]]
  /\ UNCHANGED <<storeVars, cacheUp, audit, encKey, module, embed, life, procs, ops, histVars,
                 session, loaded, cmd, calls>>

on_member_join(e, t) == Listener(e, "on_member_join", t, MemberPayload, TRUE)
on_member_remove(e, t) == Listener(e, "on_member_remove", t, MemberPayload, TRUE)
on_member_ban(e, t) == Listener(e, "on_member_ban", t, MemberPayload, TRUE)
on_member_unban(e, t) == Listener(e, "on_member_unban", t, MemberPayload, TRUE)

\* if not message.guild or message.author.bot: return
on_message_delete(e, t, in_guild, author_bot) ==
  Listener(e, "on_message_delete", t,
           [MemberPayload EXCEPT !.in_guild = in_guild, !.author_bot = author_bot],
           ~(~in_guild \/ author_bot))

\* A faulty variant of on_message_edit: an edit that left the content as it
\* was is taken up.
on_message_edit_any(e, t, in_guild, author_bot, same_content) ==
  Listener(e, "on_message_edit", t,
           [in_guild |-> in_guild, author_bot |-> author_bot, same_content |-> same_content],
           ~(~in_guild \/ author_bot))

\* if not after.guild or after.author.bot or before.content == after.content: return
on_message_edit(e, t, in_guild, author_bot, same_content) ==
  Listener(e, "on_message_edit", t,
           [in_guild |-> in_guild, author_bot |-> author_bot, same_content |-> same_content],
           ~(~in_guild \/ author_bot \/ same_content))

\* A faulty variant of SessionUnavailable: a closed session passes.
SessionUnavailableNoneOnly(s) == s = "none"

\* if not self.session or self.session.closed
SessionUnavailable(s) == s \in {"none", "closed"}

\* A faulty variant of Enabled: the answer of the toggle lookup is ignored.
EnabledAlways(answer) == TRUE

\* if not await is_log_event_enabled(...): return False
Enabled(answer) == answer = PyTrue

\* The toggle lookup of _check_log_enabled; on True the listener builds its
\* view and enters _send_log_embed, which returns at once without a session.
_check_log_enabled(e) ==
  /\ evs[e].pc = "toggle"
  /\ \E o \in StoreOutcomes :
       LET me == evs[e]
           got == is_log_event_enabled(me.t, me.ek, TRUE, o)
           seen == [me EXCEPT !.lost = me.lost \/ Unanswered(got.out),
                              !.tog = toggles[<<me.t, me.ek>>],
                              !.sess = session, !.raised = got.raised]
       IN evs' = [evs EXCEPT ![e] =
            IF got.raised THEN EvEnd(seen, "raised")
            ELSE IF ~Enabled(got.res) THEN EvEnd(seen, "disabled")
            ELSE IF SessionUnavailable(session) THEN EvEnd(seen, "no_session")
            ELSE [seen EXCEPT !.pc = "lookup"]]
  /\ UNCHANGED <<storeVars, cache, cacheUp, audit, encKey, module, embed, life, procs, ops, histVars,
                 session, loaded, cmd, calls>>

\* A faulty variant of _send_log_embed: deliveries are serialised, the
\* lookup waits until no other event is at its send.
_send_log_embed_serial(e) ==
  /\ evs[e].pc = "lookup"
  /\ \A other \in DOMAIN evs \ {e} : evs[other].pc # "send"
  /\ \E o \in StoreOutcomes :
       LET me == evs[e]
           got == get_logging_webhook(me.t, o)
           seen == [me EXCEPT !.lost = me.lost \/ Unanswered(got.out), !.raised = got.raised]
       IN /\ cache' = got.cache
          /\ evs' = [evs EXCEPT ![e] =
               IF got.raised THEN EvEnd(seen, "raised")
               ELSE IF NoTarget(got.res) THEN EvEnd(seen, "no_target_at_send")
               ELSE [seen EXCEPT !.pc = "send", !.url = got.res]]
  /\ UNCHANGED <<storeVars, cacheUp, audit, encKey, module, embed, life, procs, ops, histVars,
                 session, loaded, cmd, calls>>

\* _send_log_embed: the lookup of the webhook URL
_send_log_embed(e) ==
  /\ evs[e].pc = "lookup"
  /\ \E o \in StoreOutcomes :
       LET me == evs[e]
           got == get_logging_webhook(me.t, o)
           seen == [me EXCEPT !.lost = me.lost \/ Unanswered(got.out), !.raised = got.raised]
       IN /\ cache' = got.cache
          /\ evs' = [evs EXCEPT ![e] =
               IF got.raised THEN EvEnd(seen, "raised")
               ELSE IF NoTarget(got.res) THEN EvEnd(seen, "no_target_at_send")
               ELSE [seen EXCEPT !.pc = "send", !.url = got.res]]
  /\ UNCHANGED <<storeVars, cacheUp, audit, encKey, module, embed, life, procs, ops, histVars,
                 session, loaded, cmd, calls>>

\* A faulty variant of Caught: the last clause, except Exception, is missing.
CaughtNamedOnly(exc) ==
  exc \in {"ValueError", "Forbidden", "NotFound", "HTTPException", "ClientError"}

\* The except clauses around webhook.send
Caught(exc) ==
  \/ exc = "ValueError"
  \/ exc \in {"Forbidden", "NotFound"}
  \/ exc = "HTTPException"
  \/ exc = "ClientError"
  \/ exc \in SendOutcomes \ {"ok"}

\* A faulty variant of EventSendMentions: the send leaves allowed_mentions out.
EventSendMentionsDefault == "default"

\* allowed_mentions=AllowedMentions.none() of _send_log_embed
EventSendMentions == "none"

\* allowed_mentions=AllowedMentions.none() of log_channel's test send
TestSendMentions == "none"

\* One webhook.send: who sent, for which guild, under which mention policy,
\* and whether the payload names a user, a role or everyone.
SendCall(by, t, allowed_mentions, mention) ==
  [by |-> by, t |-> t, allowed_mentions |-> allowed_mentions, mention |-> mention]

\* await webhook.send(...) and the except clauses after it
WebhookSend(e) ==
  /\ evs[e].pc = "send"
  /\ \E exc \in SendOutcomes, mention \in BOOLEAN :
       LET me == evs[e]
           after == [me EXCEPT !.sent = me.sent + 1, !.exc = exc]
       IN /\ calls' = calls \cup {SendCall("event", me.t, EventSendMentions, mention)}
          /\ evs' = [evs EXCEPT ![e] =
               IF exc = "ok" THEN EvEnd(after, "sent")
               ELSE IF Caught(exc) THEN EvEnd(after, "failed")
               ELSE EvEnd([after EXCEPT !.raised = TRUE], "raised")]
  /\ UNCHANGED <<storeVars, cache, cacheUp, audit, encKey, module, embed, life, procs, ops, histVars,
                 session, loaded, cmd>>

(***************************************************************************)
(* The views of the message listeners.  A text is a sequence of characters. *)
(***************************************************************************)
DeleteBound == 1000
DeleteKept == 997
EditBound == 500
EditKept == 497

\* Message contents: n characters, every second one c, of lengths around
\* the bounds.
Contents ==
  {[i \in 1..n |-> IF i % 2 = 0 THEN c ELSE "a"] :
     n \in {0, 1, 3, 497, 500, 501, 997, 1000, 1001, 1003}, c \in {"b", "."}}

\* A faulty variant of Truncate: the content is cut at the bound, unmarked.
TruncateSilently(content, bound, kept) ==
  IF Len(content) > bound THEN SubSeq(content, 1, bound) ELSE content

\* if len(content) > 1000: content = content[:997] + "..."
Truncate(content, bound, kept) ==
  IF Len(content) > bound THEN SubSeq(content, 1, kept) \o <<".", ".", ".">> ELSE content

\* LogView.add_field: the text display f"**{name}:** {value}"
add_field(name, value) == <<"*", "*", name, ":", "*", "*", " ">> \o value

\* on_message_delete from the view to the send: the field "Content"
message_delete_view(content) ==
  /\ embed' = [h |-> "on_message_delete", before |-> content, after |-> <<>>,
               fields |-> IF content # <<>>
                          THEN <<add_field("Content", Truncate(content, DeleteBound, DeleteKept))>>
                          ELSE <<>>]
  /\ UNCHANGED <<storeVars, cache, cacheUp, audit, encKey, module, life, procs, ops, histVars, relayVars>>

\* on_message_edit from the view to the send: the fields "Before" and "After"
message_edit_view(before, after) ==
  /\ before # after
  /\ embed' = [h |-> "on_message_edit", before |-> before, after |-> after,
               fields |->
                 (IF before # <<>>
                  THEN <<add_field("Before", Truncate(before, EditBound, EditKept))>> ELSE <<>>)
                 \o (IF after # <<>>
                     THEN <<add_field("After", Truncate(after, EditBound, EditKept))>> ELSE <<>>)]
  /\ UNCHANGED <<storeVars, cache, cacheUp, audit, encKey, module, life, procs, ops, histVars, relayVars>>

(***************************************************************************)
(* The audit correlation check.  A guild's audit log is a sequence of       *)
(* entries, newest first; an entry has an action, a target id (0: the       *)
(* entry has no target) and an age in seconds.                              *)
(***************************************************************************)
\* max_age: float = 5.0
DefaultMaxAge == 5

\* A faulty variant of audit_logs: the limit is not applied.
audit_logs_unlimited(log, limit, action) == SelectSeq(log, LAMBDA entry : entry.action = action)

\* guild.audit_logs(limit=limit, action=action): the newest entries of the
\* action, at most limit of them.
audit_logs(log, limit, action) ==
  LET mine == SelectSeq(log, LAMBDA entry : entry.action = action)
  IN SubSeq(mine, 1, IF Len(mine) < limit THEN Len(mine) ELSE limit)

\* _is_recent_audit_log_for_target: the fetch is refused (Forbidden), fails
\* otherwise, or answers; the loop returns True at the first entry it is
\* given that matches, and an entry without a target ends it with an
\* AttributeError, which the last except clause turns into False.
_is_recent_audit_log_for_target(log, action, target_id, max_age, out) ==
  LET got == audit_logs(log, 1, action)
      Matches(i) == got[i].target = target_id /\ got[i].age <= max_age
      ends == {i \in DOMAIN got : got[i].target = 0 \/ Matches(i)}
      first == CHOOSE i \in ends : \A j \in ends : i <= j
      res == CASE out = "Forbidden" -> TRUE
               [] out = "HTTPException" -> FALSE
               [] OTHER -> ends # {} /\ Matches(first)
  IN /\ audit' = [h |-> "_is_recent_audit_log_for_target", log |-> log, action |-> action,
                  target_id |-> target_id, max_age |-> max_age, out |-> out, res |-> res]
     /\ UNCHANGED <<storeVars, cache, cacheUp, encKey, module, embed, life, procs, ops, histVars,
                    relayVars>>

(***************************************************************************)
(* Slash commands                                                           *)
(***************************************************************************)
CmdEnd(me, reply) == [IdleCmd EXCEPT !.c = me.c, !.pc = "done", !.reply = reply]
CanCommand == cmd.pc \in {"idle", "done"}

\* set_guild_setting run to its end
CfgSetRun(ns, t, k, v, o) ==
  [ok |-> o = "ok",
   cfg |-> IF o = "ok" THEN insert_or_update(cfg, <<ns, t, k>>, json_dumps(v)) ELSE cfg,
   cache |-> IF o = "ok" THEN set_cache(CfgCacheKey(ns, t, k), v) ELSE cache]

set_logging_webhook(t, url, o) == CfgSetRun("setting", t, WebhookKey, url, o)

\* log_channel, steps 1 and 2: the permission checks and the lookup of the
\* existing URL.
log_channel(t) ==
  /\ CanCommand
  /\ \E permitted \in BOOLEAN, o \in StoreOutcomes :
       LET call == [IdleCmd EXCEPT !.c = "log_channel", !.t = t]
           got == get_logging_webhook(t, o)
       IN IF ~permitted
          THEN /\ cmd' = CmdEnd(call, "no_permission")
               /\ UNCHANGED cache
          ELSE /\ cache' = got.cache
               /\ cmd' = [call EXCEPT !.pc = IF Falsy(got.res) THEN "create" ELSE "fetch",
                                      !.url = got.res]
  /\ UNCHANGED <<storeVars, cacheUp, audit, encKey, module, embed, life, procs, ops, histVars,
                 session, loaded, evs, calls>>

\* log_channel, step 2: a missing or closed session is replaced, then the
\* existing webhook is fetched; the command ends when it is in the channel
\* asked for.
LogChannelFetch ==
  /\ cmd.c = "log_channel" /\ cmd.pc = "fetch"
  /\ session' = IF SessionUnavailable(session) THEN "open" ELSE session
  /\ \E found \in {"same_channel", "other_channel", "error"} :
       cmd' = IF found = "same_channel" THEN CmdEnd(cmd, "already_configured")
              ELSE [cmd EXCEPT !.pc = "create"]
  /\ UNCHANGED <<storeVars, cache, cacheUp, audit, encKey, module, embed, life, procs, ops, histVars,
                 loaded, evs, calls>>

\* log_channel, step 3: channel.create_webhook
LogChannelCreate ==
  /\ cmd.c = "log_channel" /\ cmd.pc = "create"
  /\ \E created \in BOOLEAN, u \in Urls :
       cmd' = IF created
              THEN [cmd EXCEPT !.pc = "save", !.new = PyStr(u), !.url = PyNone]
              ELSE CmdEnd(cmd, "create_failed")
  /\ UNCHANGED <<storeVars, cache, cacheUp, audit, encKey, module, embed, life, procs, ops, histVars,
                 session, loaded, evs, calls>>

\* log_channel, step 4: set_logging_webhook(guild.id, new_webhook.url)
LogChannelSave ==
  /\ cmd.c = "log_channel" /\ cmd.pc = "save"
  /\ \E o \in StoreOutcomes :
       LET put == set_logging_webhook(cmd.t, cmd.new, o)
           row == <<"setting", cmd.t, WebhookKey>>
       IN /\ cfg' = put.cfg
          /\ cache' = put.cache
          /\ persisted' = IF put.ok THEN persisted \cup {<<row, cmd.new>>} ELSE persisted
          /\ lastOK' = IF put.ok THEN [lastOK EXCEPT ![row] = cmd.new] ELSE lastOK
          /\ cmd' = [cmd EXCEPT !.pc = IF put.ok THEN "test_send" ELSE "cleanup"]
  /\ UNCHANGED <<toggles, creds, cacheUp, audit, encKey, module, embed, life, procs, ops, lastToggle, lastCred, disabledOnce,
                 session, loaded, evs, calls>>

\* log_channel, after a successful save: the confirmation to the
\* administrator (outside any try), then the test message through the new
\* webhook; an exception of the test message is logged.
LogChannelTestSend ==
  /\ cmd.c = "log_channel" /\ cmd.pc = "test_send"
  /\ \E exc \in {"reply_raised", "ok", "Other"} :
       IF exc = "reply_raised"
       THEN /\ cmd' = CmdEnd(cmd, "raised")
            /\ UNCHANGED calls
       ELSE /\ calls' = calls \cup {SendCall("setup", cmd.t, TestSendMentions, FALSE)}
            /\ cmd' = CmdEnd(cmd, IF exc = "ok" THEN "configured" ELSE "configured_untested")
  /\ UNCHANGED <<storeVars, cache, cacheUp, audit, encKey, module, embed, life, procs, ops, histVars,
                 session, loaded, evs>>

\* log_channel, after a failed save: the failure reply to the
\* administrator (outside any try), then new_webhook.delete, whose
\* exception is logged.
LogChannelCleanup ==
  /\ cmd.c = "log_channel" /\ cmd.pc = "cleanup"
  /\ \E exc \in {"reply_raised", "deleted", "delete_raised"} :
       cmd' = CmdEnd(cmd, IF exc = "reply_raised" THEN "raised" ELSE "save_failed")
  /\ UNCHANGED <<storeVars, cache, cacheUp, audit, encKey, module, embed, life, procs, ops, histVars,
                 session, loaded, evs, calls>>

\* A faulty variant of Lower: the key is validated as it was typed.
LowerKept(x) == x

\* event_key.lower()
Lower(x) == IF x = "Message_Delete" THEN "message_delete" ELSE x

\* What an administrator may type as event key, and as status (PyNone: left
\* empty).
KeyInputs == {"message_delete", "Message_Delete", "no_such_key"}
StatusInputs == {PyNone, PyTrue, PyFalse}

\* set_log_event_enabled run to its end, as a step of log_toggle, and the
\* reply: on success it names the key and the status now stored.
LogToggleSave(call, new_status) ==
  \E o \in StoreOutcomes :
    /\ toggles' = IF o = "ok" THEN insert_or_update(toggles, <<call.t, call.ek>>, new_status)
                  ELSE toggles
    /\ lastToggle' = IF o = "ok" THEN [lastToggle EXCEPT ![<<call.t, call.ek>>] = new_status]
                     ELSE lastToggle
    /\ disabledOnce' = IF o = "ok" /\ new_status = PyFalse
                       THEN disabledOnce \cup {<<call.t, call.ek>>} ELSE disabledOnce
    /\ cmd' = [CmdEnd(call, IF o = "ok" THEN "updated" ELSE "update_failed")
                 EXCEPT !.ek = call.ek, !.new = IF o = "ok" THEN new_status ELSE PyNone]

\* log_toggle up to its first awaited call: the lookup of the current
\* status when none is given, the save otherwise.
log_toggle(t, event_key, enabled_status) ==
  /\ CanCommand
  /\ LET call == [IdleCmd EXCEPT !.c = "log_toggle", !.t = t, !.ek = Lower(event_key)]
     IN IF Lower(event_key) \notin ALL_EVENT_KEYS
        THEN /\ cmd' = [CmdEnd(call, "invalid_key") EXCEPT !.ek = call.ek]
             /\ UNCHANGED <<toggles, lastToggle, disabledOnce>>
        ELSE IF enabled_status = PyNone
        THEN /\ \E o \in StoreOutcomes :
                  LET got == is_log_event_enabled(t, call.ek, TRUE, o)
                  IN cmd' = [call EXCEPT !.pc = "save", !.out = o,
                                         !.new = PyBool(got.res # PyTrue)]
             /\ UNCHANGED <<toggles, lastToggle, disabledOnce>>
        ELSE LogToggleSave(call, enabled_status)
  /\ UNCHANGED <<cfg, creds, cache, cacheUp, audit, encKey, module, embed, life, procs, ops, persisted, lastOK, lastCred,
                 session, loaded, evs, calls>>

\* log_toggle: the save of the flipped status
LogToggleFlip ==
  /\ cmd.c = "log_toggle" /\ cmd.pc = "save"
  /\ LogToggleSave(cmd, cmd.new)
  /\ UNCHANGED <<cfg, creds, cache, cacheUp, audit, encKey, module, embed, life, procs, ops, persisted, lastOK, lastCred,
                 session, loaded, evs, calls>>

(***************************************************************************)
(* Specifications                                                           *)
(***************************************************************************)
CfgStep(p) ==
  \/ \E t \in Tenants, k \in UserKeys, d \in Defaults : get_guild_config(p, t, k, d)
  \/ \E t \in Tenants, k \in UserKeys, d \in Defaults : get_guild_setting(p, t, k, d)
  \/ \E t \in Tenants, k \in UserKeys, d \in Defaults : get_botdetect_config(p, t, k, d)
  \/ \E t \in Tenants, k \in UserKeys, v \in JsonValues : set_guild_config(p, t, k, v)
  \/ \E t \in Tenants, k \in UserKeys, v \in JsonValues : set_guild_setting(p, t, k, v)
  \/ \E t \in Tenants, k \in UserKeys, v \in JsonValues : set_botdetect_config(p, t, k, v)
  \/ CfgGetQuery(p)
  \/ CfgGetFill(p)
  \/ CfgSetFill(p)

ToggleStep(p) ==
  \/ \E t \in Tenants, ek \in ToggleKeys, de \in BOOLEAN : get_log_event_enabled(p, t, ek, de)
  \/ \E t \in Tenants, ek \in ToggleKeys, e \in BOOLEAN : set_log_event_enabled(p, t, ek, e)
  \/ \E t \in Tenants : get_all_log_event_toggles(p, t)

ApiKeyStep(p) ==
  \/ \E t \in KeyTenants, pr \in Providers, kd \in KeyDatas : set_guild_api_key(p, t, pr, kd)
  \/ \E t \in KeyTenants : get_guild_api_key(p, t)
  \/ \E t \in KeyTenants : remove_guild_api_key(p, t)
  \/ ApiKeyQuery(p)
  \/ ApiKeyFill(p)
  \/ ApiKeyInvalidate(p)

\* One caller at a time: each operation of the store runs to completion
\* before the next starts; cache entries expire.
NextSeq ==
  \/ CfgStep("p1")
  \/ \E t \in Tenants : get_all_guild_config("p1", t)
  \/ \E t \in Tenants : get_all_botdetect_config("p1", t)
  \/ ToggleStep("p1")
  \/ ApiKeyStep("p1")
  \/ Evict
SpecSeq == InitSeq /\ [][NextSeq]_vars

\* Concurrent callers of the configuration getters and setters.
Next ==
  \/ \E p \in Procs : CfgStep(p)
  \/ \E p \in Procs, t \in Tenants : get_all_guild_config(p, t)
  \/ \E p \in Procs, t \in Tenants : get_all_botdetect_config(p, t)
  \/ \E p \in Procs : ToggleStep(p)
  \/ Evict
Spec == Init /\ [][Next]_vars

\* The credential every guild holds when the process starts: a plain key
\* stored by an earlier run.
SeedCred == [api_provider |-> "openai", key_data |-> PyStr("sk-0")]
SeedRow(t) ==
  [guild_id |-> t,
   api_provider |-> SeedCred.api_provider,
   encrypted_api_key |-> [ty |-> "fernet", key |-> "K1", pt |-> SeedCred.key_data],
   encrypted_github_auth_info |-> PyNone]

\* A fresh process over a database in which every guild has a credential.
InitKeys ==
  /\ InitRest
  /\ life = IdleLife
  /\ Imported
  /\ creds = [t \in KeyTenants |-> SeedRow(t)]
  /\ lastCred = [t \in KeyTenants |-> SeedCred]
  /\ cacheUp = TRUE

\* Concurrent callers of the credential operations; rows may become
\* unreadable and cache entries expire.
NextKeys ==
  \/ \E p \in Procs : ApiKeyStep(p)
  \/ \E t \in KeyTenants : StoreRowUnreadable(t)
  \/ Evict
SpecKeys == InitKeys /\ [][NextKeys]_vars

\* A process starts over a database whose API keys an earlier run wrote
\* under "K1"; the environment gives it that key, another key or none.
InitBoot ==
  /\ InitRest
  /\ life = IdleLife
  /\ creds = [t \in KeyTenants |-> SeedRow(t)]
  /\ lastCred = [t \in KeyTenants |-> SeedCred]
  /\ cacheUp = TRUE
  /\ encKey \in EnvKeys
  /\ module = "importing"

\* The import, then callers of the encryption functions and of the API key
\* operations.
NextBoot ==
  \/ ImportModule
  \/ \E p \in Procs, data \in Payloads : encrypt_call(p, data)
  \/ \E p \in Procs, token \in TokensAtHand : decrypt_call(p, token)
  \/ \E p \in Procs : ApiKeyStep(p)
SpecBoot == InitBoot /\ [][NextBoot]_vars

\* The cog is constructed before or after the bot is ready and has
\* scheduled its startup task.
InitSession ==
  /\ InitRest /\ Imported
  /\ creds = [t \in KeyTenants |-> Absent]
  /\ lastCred = [t \in KeyTenants |-> Absent]
  /\ cacheUp = TRUE
  /\ \E r, m \in BOOLEAN :
       life = [IdleLife EXCEPT !.ready = r, !.task = "wait", !.lst = "idle", !.member = m]

\* Startup, the log_channel command and the unload of the cog, interleaved.
NextSession ==
  \/ BotReady
  \/ start_audit_log_poller_when_ready
  \/ on_ready
  \/ \E who \in {"task", "lst"} : initialize_audit_log_ids(who)
  \/ \E resumes \in BOOLEAN : on_guild_join(resumes)
  \/ on_guild_remove
  \/ cog_unload
  \/ \E t \in Tenants : log_channel(t)
  \/ LogChannelFetch
  \/ LogChannelCreate
  \/ LogChannelSave
  \/ LogChannelTestSend
  \/ LogChannelCleanup
SpecSession == InitSession /\ [][NextSession]_vars

\* The message listeners build their views, for every pair of contents.
NextView ==
  \/ \E content \in Contents : message_delete_view(content)
  \/ \E before, after \in Contents : message_edit_view(before, after)
SpecView == Init /\ [][NextView]_vars

\* One audit correlation check (a later one depends on nothing an earlier
\* one did), for every log of up to two entries (the older one no younger
\* than the newer), every action and target asked for, and every way the
\* fetch can end.
NextAudit ==
  \E log \in UNION {[1..n -> [action : {"kick", "ban"}, target : {0, 1, 2}, age : {0, 5, 6}]] :
                      n \in 0..2},
     action \in {"kick", "ban"}, target_id \in {1, 2}, max_age \in {DefaultMaxAge, 0},
     out \in {"ok", "Forbidden", "HTTPException"} :
    /\ audit = IdleAudit
    /\ \A i, j \in DOMAIN log : i < j => log[i].age <= log[j].age
    /\ _is_recent_audit_log_for_target(log, action, target_id, max_age, out)
SpecAudit == Init /\ [][NextAudit]_vars

\* A fresh process over an empty database that has rows for two guilds and
\* two keys in each of the three tables; every guild holds a credential.
InitIso ==
  /\ cfg = [r \in Namespaces \X KeyTenants \X ConfigKeys |-> NoRow]
  /\ lastOK = [r \in Namespaces \X KeyTenants \X ConfigKeys |-> Absent]
  /\ toggles = [r \in KeyTenants \X ALL_EVENT_KEYS |-> Absent]
  /\ lastToggle = [r \in KeyTenants \X ALL_EVENT_KEYS |-> Absent]
  /\ cache = [c \in {CfgCacheKey(r[1], r[2], r[3]) : r \in Namespaces \X KeyTenants \X ConfigKeys}
                      \cup {ApiCacheKey(t) : t \in KeyTenants} |-> Absent]
  /\ creds = [t \in KeyTenants |-> SeedRow(t)]
  /\ lastCred = [t \in KeyTenants |-> SeedCred]
  /\ cacheUp = TRUE
  /\ Imported
  /\ life = IdleLife
  /\ embed = IdleEmbed
  /\ audit = IdleAudit
  /\ procs = [p \in Procs |-> IdleProc]
  /\ ops = 0
  /\ persisted = {}
  /\ disabledOnce = {}
  /\ session = "none"
  /\ loaded = TRUE
  /\ evs = [e \in EvProcs |-> IdleEv]
  /\ cmd = IdleCmd
  /\ calls = {}

\* Callers of the setters of the four tables on either guild, two of them
\* racing on guild_config, and of the credential getter that fills the cache.
NextIso ==
  \/ \E p \in Procs, t \in KeyTenants, k \in ConfigKeys, v \in {PyInt("1"), PyStr("1")} :
       set_guild_config(p, t, k, v)
  \/ \E t \in KeyTenants, k \in UserKeys : set_guild_setting("p1", t, k, PyStr("1"))
  \/ \E t \in KeyTenants, k \in UserKeys : set_botdetect_config("p1", t, k, PyStr("1"))
  \/ \E p \in Procs : CfgSetFill(p)
  \/ \E t \in KeyTenants, ek \in ToggleKeys, e \in BOOLEAN :
       set_log_event_enabled("p1", t, ek, e)
  \/ \E t \in KeyTenants : set_guild_api_key("p1", t, "openai", PyStr("sk-1"))
  \/ \E t \in KeyTenants : get_guild_api_key("p1", t)
  \/ \E t \in KeyTenants : remove_guild_api_key("p1", t)
  \/ ApiKeyQuery("p1")
  \/ ApiKeyFill("p1")
  \/ ApiKeyInvalidate("p1")
SpecIso == InitIso /\ [][NextIso]_vars

\* A fresh cog over an empty database, with room for two events in flight.
InitPipes ==
  /\ cfg = [r \in CfgRows |-> NoRow]
  /\ lastOK = [r \in CfgRows |-> Absent]
  /\ toggles = [r \in ToggleRows |-> Absent]
  /\ lastToggle = [r \in ToggleRows |-> Absent]
  /\ cache = [c \in CacheKeys |-> Absent]
  /\ creds = [t \in KeyTenants |-> Absent]
  /\ lastCred = [t \in KeyTenants |-> Absent]
  /\ cacheUp = TRUE
  /\ Imported
  /\ life = IdleLife
  /\ embed = IdleEmbed
  /\ audit = IdleAudit
  /\ procs = [p \in Procs |-> IdleProc]
  /\ ops = 0
  /\ persisted = {}
  /\ disabledOnce = {}
  /\ session = "none"
  /\ loaded = TRUE
  /\ evs = [e \in {"e1", "e2"} |-> IdleEv]
  /\ cmd = IdleCmd
  /\ calls = {}

\* Two message deletions in flight at once, beside the writes that give
\* the guild a target or disable the key, the session not yet open or open.
NextPipes ==
  \/ initialize_cog
  \/ \E e \in {"e1", "e2"}, t \in Tenants, g \in BOOLEAN : on_message_delete(e, t, g, FALSE)
  \/ \E e \in {"e1", "e2"} : _check_log_enabled(e)
  \/ \E e \in {"e1", "e2"} : _send_log_embed(e)
  \/ \E e \in {"e1", "e2"} : WebhookSend(e)
  \/ \E t \in Tenants, u \in Urls : set_guild_setting("p1", t, WebhookKey, PyStr(u))
  \/ CfgSetFill("p1")
  \/ \E t \in Tenants : set_log_event_enabled("p1", t, "message_delete", FALSE)

\* Every store, cache and transport call a listener awaits returns or
\* fails: the event loop resumes the listener, so each of its steps is
\* taken once it stays enabled.
SpecPipes ==
  /\ InitPipes
  /\ [][NextPipes]_vars
  /\ \A e \in {"e1", "e2"} :
       WF_vars(_check_log_enabled(e) \/ _send_log_embed(e) \/ WebhookSend(e))

\* The relay: concurrent listeners, one administrator, cache expiry.
ListenerStep(e) ==
  \/ \E t \in Tenants : on_member_join(e, t)
  \/ \E t \in Tenants : on_member_remove(e, t)
  \/ \E t \in Tenants : on_member_ban(e, t)
  \/ \E t \in Tenants : on_member_unban(e, t)
  \/ \E t \in Tenants, g, b \in BOOLEAN : on_message_delete(e, t, g, b)
  \/ \E t \in Tenants, g, b, c \in BOOLEAN : on_message_edit(e, t, g, b, c)
  \/ _check_log_enabled(e)
  \/ _send_log_embed(e)
  \/ WebhookSend(e)

CommandStep ==
  \/ \E t \in Tenants : log_channel(t)
  \/ LogChannelFetch
  \/ LogChannelCreate
  \/ LogChannelSave
  \/ LogChannelTestSend
  \/ LogChannelCleanup
  \/ \E t \in Tenants, k \in KeyInputs, st \in StatusInputs : log_toggle(t, k, st)
  \/ LogToggleFlip

\* The relay while the delivery target is written and read by others:
\* one listener, a caller of set_guild_setting on the webhook URL (an
\* administrator's save or removal) and a caller of get_guild_setting on
\* it (another event's lookup).
NextTarget ==
  \/ initialize_cog
  \/ \E e \in EvProcs, t \in Tenants : on_member_join(e, t)
  \/ \E e \in EvProcs : _check_log_enabled(e)
  \/ \E e \in EvProcs : _send_log_embed(e)
  \/ \E e \in EvProcs : WebhookSend(e)
  \/ \E t \in Tenants, v \in {PyNone} \cup {PyStr(u) : u \in Urls} :
       set_guild_setting("p1", t, WebhookKey, v)
  \/ CfgSetFill("p1")
  \/ \E t \in Tenants : get_guild_setting("p2", t, WebhookKey, PyNone)
  \/ CfgGetQuery("p2")
  \/ CfgGetFill("p2")
SpecTarget == Init /\ [][NextTarget]_vars

NextRelay ==
  \/ initialize_cog
  \/ cog_unload
  \/ \E e \in EvProcs : ListenerStep(e)
  \/ CommandStep
  \/ Evict
SpecRelay == Init /\ [][NextRelay]_vars

(***************************************************************************)
(* Properties                                                               *)
(***************************************************************************)
RowOf(me) == <<me.ns, me.t, me.k>>
Finished(p, op) == procs[p].op = op /\ procs[p].pc = "done"
\* The operation's store call was answered (or the cache answered instead).
StoreAnswered(me) == me.out \in {"none", "ok"}

\* C1: once a set of (tenant, namespace, key) has returned True, the next
\* get of that key returns the value that was set, from the cache when the
\* entry is there and from the store (whose SELECT answers) when the entry
\* is gone; for each of the three namespaces.
C1_SetThenGet ==
  \A p \in Procs :
    (Finished(p, "get") /\ StoreAnswered(procs[p]) /\ lastOK[RowOf(procs[p])] # Absent)
      => procs[p].res = lastOK[RowOf(procs[p])]

\* A get that found no cache entry and read back from the store the string
\* "1" that the last successful set stored.
C1_Witness ==
  \E p \in Procs :
    /\ Finished(p, "get") /\ ~procs[p].hit /\ procs[p].out = "ok"
    /\ lastOK[RowOf(procs[p])] = PyStr("1")
    /\ procs[p].res = PyStr("1")

Quiescent == \A p \in Procs : procs[p].pc \in {"idle", "done"}

\* C2: whenever no get or set is in progress, what the cache answers for
\* a (tenant, namespace, key) is nothing (a miss) or the value in the store.
C2_CacheMatchesStore ==
  Quiescent =>
    \A r \in CfgRows :
      LET entry == get_cache(CfgCacheKey(r[1], r[2], r[3]))
      IN entry = PyNone \/ (cfg[r] # NoRow /\ json_dumps(entry) = cfg[r])

\* C3 (state part): every cache entry of a configuration key, and every
\* value a get returned from the cache or the store, is a value whose
\* upsert on that key succeeded.
C3_OnlyPersisted ==
  /\ \A r \in CfgRows :
       LET entry == cache[CfgCacheKey(r[1], r[2], r[3])]
       IN entry # Absent => <<r, entry>> \in persisted
  /\ \A p \in Procs :
       (Finished(p, "get") /\ (procs[p].hit \/ procs[p].loc # PyNone))
         => <<RowOf(procs[p]), procs[p].res>> \in persisted

\* C3 (step part): the step in which a set ends after a failed upsert
\* returns False and changes no cache entry.
C3_FailedSetStep ==
  \A p \in Procs :
    (/\ procs'[p] # procs[p]
     /\ procs'[p].op = "set" /\ procs'[p].pc = "done"
     /\ procs'[p].out \in {"fail", "raise"})
      => (cache' = cache /\ procs'[p].res = PyFalse)

\* C3: a set whose upsert fails returns False and leaves the cache as it
\* was, and no cache entry or get result is a value that was not persisted.
C3_CacheAfterStore == [](C3_OnlyPersisted) /\ [][C3_FailedSetStep]_vars

\* A set ended False on a failed upsert while the cache entry of its key
\* still holds the value of an earlier, successful set.
C3_Witness ==
  \E p \in Procs :
    /\ Finished(p, "set") /\ procs[p].out = "fail" /\ procs[p].res = PyFalse
    /\ cache[CfgCacheKey(procs[p].ns, procs[p].t, procs[p].k)] \notin {Absent, procs[p].v}

\* C4: with the store answering, get_log_event_enabled(default_enabled =
\* True) returns True for a key no set_log_event_enabled ever stored, and
\* returns the flag of the last successful set_log_event_enabled otherwise,
\* whatever the cache holds.
C4_TogglePersists ==
  \A p \in Procs :
    (Finished(p, "get_toggle") /\ procs[p].out = "ok")
      => LET last == lastToggle[<<procs[p].t, procs[p].k>>]
         IN /\ last = Absent => procs[p].res = procs[p].d
            /\ last # Absent => procs[p].res = last

\* With an empty cache, a key that was set to False reads False under
\* default_enabled = True.
C4_Witness ==
  \E p \in Procs :
    /\ Finished(p, "get_toggle") /\ procs[p].out = "ok" /\ procs[p].d = PyTrue
    /\ lastToggle[<<procs[p].t, procs[p].k>>] = PyFalse
    /\ procs[p].res = PyFalse
    /\ \A c \in CacheKeys : cache[c] = Absent

\* What an operation returns when it cannot answer.
FailureMarker(me) ==
  CASE me.op \in {"get", "get_toggle"} -> me.res = me.d
    [] me.op \in {"get_all", "get_all_toggles"} -> me.rmap = <<>>
    [] me.op = "get_key" -> me.res = PyNone
    [] me.op \in {"set", "set_toggle", "set_key", "remove_key"} -> me.res = PyFalse

\* C8: an operation whose store call raised or reported failure ends
\* without an exception and with its failure marker: the default for get
\* and get_log_event_enabled, {} for the get_all's, None for
\* get_guild_api_key, False for the set's and remove_guild_api_key.
C8_StoreFailureContained ==
  \A p \in Procs :
    (procs[p].pc = "done" /\ procs[p].out \in {"fail", "raise"})
      => (~procs[p].raised /\ FailureMarker(procs[p]))

\* get_guild_api_key ended None after its SELECT raised, although the guild
\* has a stored credential.
C8_Witness ==
  \E p \in Procs :
    /\ Finished(p, "get_key") /\ procs[p].out = "raise" /\ ~procs[p].raised
    /\ procs[p].res = PyNone /\ creds[procs[p].t] # Absent

\* The credential a GuildAPIKey carries: the plain key or the auth document.
SecretOf(key) == IF key.api_key # PyNone THEN key.api_key ELSE key.github_auth_info

\* The secret read is the secret set, a timestamp being given back as a
\* datetime or as its ISO text.
SameSecret(secret, key_data) ==
  IF key_data.ty # "dict" THEN secret = key_data
  ELSE /\ secret.ty = "dict" /\ DOMAIN secret.f = DOMAIN key_data.f
       /\ \A x \in DOMAIN key_data.f :
            \/ secret.f[x] = key_data.f[x]
            \/ key_data.f[x].ty = "datetime" /\ secret.f[x] = PyStr(key_data.f[x].s)

\* C9: with the cache backend unavailable, a get whose SELECT answers
\* returns the store's value (the default when there is no row),
\* get_guild_api_key returns the stored credential (None when there is
\* none), neither raises, and a set, set_guild_api_key or
\* remove_guild_api_key returns True exactly when its store write succeeded.
C9_CacheOutageHarmless ==
  ~cacheUp =>
    \A p \in Procs :
      LET me == procs[p]
      IN me.pc = "done" =>
           /\ ~me.raised
           /\ (me.op = "get" /\ me.out = "ok") =>
                IF cfg[RowOf(me)] = NoRow THEN me.res = me.d
                ELSE json_dumps(me.res) = cfg[RowOf(me)]
           /\ (me.op = "get_key" /\ me.out = "ok") =>
                IF lastCred[me.t] = Absent THEN me.res = PyNone
                ELSE /\ me.res # PyNone
                     /\ me.res.api_provider = lastCred[me.t].api_provider
                     /\ SameSecret(SecretOf(me.res), lastCred[me.t].key_data)
           /\ (me.op \in {"set", "set_key", "remove_key"}) => me.res = PyBool(me.out = "ok")

\* Without a cache, a get returned the stored string "1".
C9_Witness ==
  /\ ~cacheUp
  /\ \E p \in Procs :
       /\ Finished(p, "get") /\ procs[p].out = "ok"
       /\ cfg[RowOf(procs[p])] = json_dumps(PyStr("1"))
       /\ procs[p].res = PyStr("1")

\* C5: while a guild has no webhook URL stored, no webhook send has been
\* made for it, and a listener run for it (any of the six) has ended at the
\* first lookup without a send.
C5_NoTargetNoCalls ==
  \A t \in Tenants :
    ~HasTarget(t) =>
      /\ \A c \in calls : c.t # t
      /\ \A e \in EvProcs :
           evs[e].t = t => (evs[e].sent = 0 /\ evs[e].pc \in {"idle", "done"})

\* on_message_edit ended for a guild without a webhook URL, its lookup
\* answered, and no send was made.
C5_Witness ==
  \E e \in EvProcs :
    /\ evs[e].pc = "done" /\ evs[e].ek = "message_edit" /\ evs[e].status = "no_target"
    /\ ~evs[e].lost /\ ~HasTarget(evs[e].t)
    /\ evs[e].sent = 0 /\ calls = {}

\* C6: for a guild that has a webhook URL, with the lookups answered, a
\* listener whose event key is stored as disabled ends without a webhook
\* send, and a listener whose key is enabled (never stored, or stored as
\* enabled, also after having been disabled) makes exactly one send while
\* the session is open.
C6_DisabledSilentEnabledOnce ==
  \A e \in EvProcs :
    LET me == evs[e]
    IN (me.pc = "done" /\ me.status # "ineligible" /\ me.had /\ ~me.lost) =>
         /\ me.tog = PyFalse => me.sent = 0
         /\ (me.tog \in {Absent, PyTrue} /\ me.sess = "open") => me.sent = 1

\* on_message_delete made one send for a key that was disabled and then
\* enabled again.
C6_Witness ==
  \E e \in EvProcs :
    /\ evs[e].pc = "done" /\ evs[e].ek = "message_delete"
    /\ evs[e].had /\ ~evs[e].lost /\ evs[e].sess = "open"
    /\ <<evs[e].t, evs[e].ek>> \in disabledOnce /\ evs[e].tog = PyTrue
    /\ evs[e].sent = 1

\* C7: no listener ends with an exception, whatever the two lookups and
\* the webhook send ended with.
C7_NoHandlerRaises == \A e \in EvProcs : ~evs[e].raised /\ evs[e].status # "raised"

\* A listener ended normally after its send raised an exception none of
\* the named clauses catches, and after a lookup the store did not answer.
C7_Witness ==
  \E e \in EvProcs :
    /\ evs[e].pc = "done" /\ evs[e].exc = "Other" /\ evs[e].lost
    /\ evs[e].status = "failed" /\ ~evs[e].raised

\* C10: every webhook send made, by a listener or as the test message of
\* log_channel, has allowed_mentions = none, whether or not the payload
\* names someone.
C10_NoMentions == \A c \in calls : c.allowed_mentions = "none"

\* A listener sent a payload that names someone, and log_channel sent its
\* test message.
C10_Witness ==
  /\ \E c \in calls : c.by = "event" /\ c.mention /\ c.allowed_mentions = "none"
  /\ \E c \in calls : c.by = "setup" /\ c.allowed_mentions = "none"

\* The plaintext inside a row's populated secret column.
RowSecret(row) ==
  IF row.encrypted_api_key # PyNone THEN row.encrypted_api_key.pt
  ELSE row.encrypted_github_auth_info.data.pt

\* C11: every guild has no credential row or one row that is its own, with
\* exactly one of the two secret columns populated, and whose provider and
\* secret are those of the last successful set_guild_api_key (of the
\* credential stored at start when there was none); after a successful
\* remove_guild_api_key there is no row.
C11_OneRecordOneSecret ==
  \A t \in KeyTenants :
    IF lastCred[t] = Absent THEN creds[t] = Absent
    ELSE /\ creds[t] # Absent
         /\ creds[t].guild_id = t
         /\ (creds[t].encrypted_api_key = PyNone) # (creds[t].encrypted_github_auth_info = PyNone)
         /\ creds[t].api_provider = lastCred[t].api_provider
         /\ (lastCred[t].key_data.ty = "dict") = (creds[t].encrypted_api_key = PyNone)
         /\ RowSecret(creds[t]) = IF lastCred[t].key_data.ty = "dict"
                                  THEN AuthDocument(lastCred[t].key_data)
                                  ELSE lastCred[t].key_data

\* A guild's plain key was replaced by a structured credential of another
\* provider: the plain column is empty.
C11_Witness ==
  \E p \in Procs :
    /\ Finished(p, "set_key") /\ procs[p].res = PyTrue /\ procs[p].v.ty = "dict"
    /\ creds[procs[p].t].api_provider = "github_copilot"
    /\ creds[procs[p].t].encrypted_api_key = PyNone
    /\ creds[procs[p].t].encrypted_github_auth_info # PyNone

\* The row holds the provider and the secret of the call.
RowHolds(row, me) ==
  /\ row # Absent
  /\ row.api_provider = me.k
  /\ RowSecret(row) = IF me.v.ty = "dict" THEN AuthDocument(me.v) ELSE me.v

\* C12: with a store that answers, set_guild_api_key with a string key (any
\* provider) or with a token document for the provider "github_copilot"
\* returns True and the row of the guild holds that provider and secret.
C12_StringOrCopilotDocument ==
  \A p \in Procs :
    (/\ Finished(p, "set_key") /\ StoreAnswered(procs[p])
     /\ (procs[p].v.ty = "str" \/ procs[p].k = "github_copilot"))
      => (procs[p].res = PyTrue /\ RowHolds(creds[procs[p].t], procs[p]))

\* C12 as stated: with a store that answers, a string key and a token
\* document are both accepted whatever the provider.
C12_AnyShapeAnyProvider ==
  \A p \in Procs :
    (Finished(p, "set_key") /\ StoreAnswered(procs[p]))
      => (procs[p].res = PyTrue /\ RowHolds(creds[procs[p].t], procs[p]))

\* A token document was set for github_copilot and is in the row.
C12_Witness ==
  \E p \in Procs :
    /\ Finished(p, "set_key") /\ procs[p].out = "ok" /\ procs[p].res = PyTrue
    /\ procs[p].k = "github_copilot" /\ procs[p].v.ty = "dict"
    /\ RowHolds(creds[procs[p].t], procs[p])

\* C13 (state part): a set_guild_api_key that returned True was given a
\* secret of a supported shape and its upsert succeeded.
C13_SuccessMeansPersisted ==
  \A p \in Procs :
    (Finished(p, "set_key") /\ procs[p].res = PyTrue)
      => (procs[p].out = "ok" /\ KeyShape(procs[p].k, procs[p].v) # "invalid")

\* C13 (step part): a set_guild_api_key whose upsert fails or raises, or
\* whose secret has an unsupported shape, ends False in a step that changes
\* neither the row nor the cache entry of its guild.
C13_FailedSetStep ==
  \A p \in Procs :
    (/\ procs'[p] # procs[p]
     /\ procs'[p].op = "set_key" /\ procs'[p].pc = "done"
     /\ (procs'[p].out \in {"fail", "raise"} \/ KeyShape(procs'[p].k, procs'[p].v) = "invalid"))
      => /\ procs'[p].res = PyFalse
         /\ creds'[procs'[p].t] = creds[procs'[p].t]
         /\ cache'[ApiCacheKey(procs'[p].t)] = cache[ApiCacheKey(procs'[p].t)]

\* C13: set_guild_api_key returns True only after its row was upserted; on
\* a failed upsert or an unsupported shape it returns False and leaves the
\* guild's row and cache entry as they were.
C13_NoSilentSuccess == [](C13_SuccessMeansPersisted) /\ [][C13_FailedSetStep]_vars

\* A set_guild_api_key ended False on a failed upsert while the guild's
\* earlier credential is still in the row and in the cache.
C13_Witness ==
  \E p \in Procs :
    /\ Finished(p, "set_key") /\ procs[p].out = "fail" /\ procs[p].res = PyFalse
    /\ creds[procs[p].t] = SeedRow(procs[p].t)
    /\ cache[ApiCacheKey(procs[p].t)] # Absent

\* The key under which the populated secret column of a row was encrypted.
RowKey(row) ==
  IF row.encrypted_api_key # PyNone THEN row.encrypted_api_key.key
  ELSE row.encrypted_github_auth_info.data.key

\* C14 (state part): a get_guild_api_key whose decryption failed returned
\* None and raised nothing; one that decoded a row returned the credential
\* of its own guild.
C14_AbsentOrOwn ==
  \A p \in Procs :
    /\ (Finished(p, "get_key") /\ procs[p].err)
         => (procs[p].res = PyNone /\ ~procs[p].raised)
    /\ (Finished(p, "get_key") /\ procs[p].loc # PyNone)
         => (procs[p].res = procs[p].loc /\ procs[p].res.guild_id = procs[p].t)

\* C14 (step part): the step in which a get_guild_api_key ends on a failed
\* decryption writes no cache entry, and happens only on a row the key of
\* the process does not open; a SELECT that answers with a row the key
\* opens yields that row's credential, whatever the rows of other guilds.
C14_QueryStep ==
  \A p \in Procs :
    LET t == procs[p].t
    IN (procs[p].op = "get_key" /\ procs[p].pc = "query" /\ procs'[p] # procs[p])
         => /\ procs'[p].err
                 => (cache' = cache /\ creds[t] # Absent /\ RowKey(creds[t]) # encKey)
            /\ (procs'[p].out = "ok" /\ creds[t] # Absent /\ RowKey(creds[t]) = encKey)
                 => /\ ~procs'[p].err /\ procs'[p].pc = "set_cache"
                    /\ procs'[p].loc.guild_id = t
                    /\ procs'[p].loc.api_provider = creds[t].api_provider
                    /\ SecretOf(procs'[p].loc) =
                         IF creds[t].encrypted_api_key # PyNone THEN RowSecret(creds[t])
                         ELSE RestoreExpiry(RowSecret(creds[t]))

\* C14: a get_guild_api_key that reads from the store a row it cannot
\* decrypt returns None without raising and without writing the cache,
\* and a get of a guild whose row decrypts returns that guild's credential
\* whatever the state of the other guilds' rows.
C14_DecryptFailureContained == [](C14_AbsentOrOwn) /\ [][C14_QueryStep]_vars

\* C14 as stated: while a guild's row cannot be decrypted, a
\* get_guild_api_key of that guild that has not read the row before ends
\* with None.
C14_UnreadableMeansAbsent ==
  [][\A p \in Procs :
      (/\ procs'[p] # procs[p]
       /\ procs'[p].op = "get_key" /\ procs'[p].pc = "done"
       /\ procs[p].pc # "set_cache"
       /\ creds[procs'[p].t] # Absent /\ RowKey(creds[procs'[p].t]) # encKey)
        => procs'[p].res = PyNone]_vars

\* One caller's get ended None on the unreadable row of guild 1 while the
\* other caller's get read the credential of guild 2 from the store.
C14_Witness ==
  \E p, q \in Procs :
    /\ Finished(p, "get_key") /\ procs[p].t = 1 /\ procs[p].err
    /\ procs[p].res = PyNone /\ ~procs[p].raised
    /\ creds[1] # Absent /\ RowKey(creds[1]) # encKey /\ cache[ApiCacheKey(1)] = Absent
    /\ Finished(q, "get_key") /\ procs[q].t = 2 /\ ~procs[q].hit
    /\ procs[q].res # PyNone /\ procs[q].res.guild_id = 2

\* Every set_guild_api_key and remove_guild_api_key of guild t that wrote
\* the store has returned, and caller p is about to start a call.
WritesReturned(p, t) ==
  /\ procs[p].pc \in {"idle", "done"}
  /\ \A q \in Procs :
       ~(procs[q].op \in {"set_key", "remove_key"} /\ procs[q].t = t /\ procs[q].pc = "del_cache")

\* C15: a get_guild_api_key that starts after the last write of its guild,
\* a successful remove_guild_api_key, has returned does not return a
\* credential from the cache.
C15_DeletedStaysAbsent ==
  [][\A p \in Procs :
      (/\ procs'[p] # procs[p] /\ procs'[p].op = "get_key"
       /\ WritesReturned(p, procs'[p].t)
       /\ lastCred[procs'[p].t] = Absent)
        => ~(procs'[p].pc = "done" /\ procs'[p].res # PyNone)]_vars

\* C16: a get_guild_api_key that starts after the last write of its guild,
\* a successful set_guild_api_key, has returned does not return from the
\* cache another provider or secret than the one set.
C16_SetThenGetNew ==
  [][\A p \in Procs :
      (/\ procs'[p] # procs[p] /\ procs'[p].op = "get_key"
       /\ WritesReturned(p, procs'[p].t)
       /\ lastCred[procs'[p].t] # Absent
       /\ procs'[p].pc = "done")
        => /\ procs'[p].res.api_provider = lastCred[procs'[p].t].api_provider
           /\ SameSecret(SecretOf(procs'[p].res), lastCred[procs'[p].t].key_data)]_vars

\* C17: the secret columns of every stored row are Fernet tokens, and the
\* secret of every cached credential is a Fernet token too.
C17_NoPlaintextAtRest ==
  \A t \in KeyTenants :
    /\ creds[t] # Absent =>
         /\ creds[t].encrypted_api_key # PyNone => creds[t].encrypted_api_key.ty = "fernet"
         /\ creds[t].encrypted_github_auth_info # PyNone
              => creds[t].encrypted_github_auth_info.data.ty = "fernet"
    /\ cache[ApiCacheKey(t)] # Absent => SecretOf(cache[ApiCacheKey(t)]).ty = "fernet"

C20_NoKeyNoOperation ==
  /\ module = "loaded" => encKey \notin {"<unset>", ""}
  /\ module # "loaded" => (ops = 0 /\ \A p \in Procs : procs[p] = IdleProc)

\* The import failed for want of a key and nothing has run.
C20_Witness ==
  /\ module = "failed" /\ encKey = "<unset>"
  /\ ops = 0 /\ \A p \in Procs : procs[p] = IdleProc

\* C19: a get_guild_api_key that returns the token document of the last
\* successful set_guild_api_key returns it with every timestamp field as
\* the datetime that was set, read from the store or from the cache.
C19_TimestampRoundTrip ==
  \A p \in Procs :
    LET last == lastCred[procs[p].t]
    IN (/\ Finished(p, "get_key") /\ procs[p].res # PyNone
        /\ last # Absent /\ last.key_data.ty = "dict")
         => SecretOf(procs[p].res) = last.key_data

\* The content a field of the view delivers: its text after the label.
Delivered(field) == SubSeq(field, 8, Len(field))

\* The field delivers the content as it was when the content is within the
\* bound, and else at most bound characters of it: a prefix, then "...".
WithinBound(field, content, bound) ==
  LET d == Delivered(field)
  IN IF Len(content) <= bound THEN d = content
     ELSE /\ Len(d) <= bound
          /\ SubSeq(d, Len(d) - 2, Len(d)) = <<".", ".", ".">>
          /\ SubSeq(d, 1, Len(d) - 3) = SubSeq(content, 1, Len(d) - 3)

\* C21: the view of a deleted message has the field "Content" exactly when
\* the content is not empty, within 1000 characters; the view of an edit
\* has "Before" and "After" for the non-empty contents, within 500 each.
C21_Truncation ==
  /\ embed.h = "on_message_delete" =>
       IF embed.before = <<>> THEN embed.fields = <<>>
       ELSE /\ Len(embed.fields) = 1 /\ embed.fields[1][3] = "Content"
            /\ WithinBound(embed.fields[1], embed.before, 1000)
  /\ embed.h = "on_message_edit" =>
       LET nb == IF embed.before = <<>> THEN 0 ELSE 1
           na == IF embed.after = <<>> THEN 0 ELSE 1
       IN /\ Len(embed.fields) = nb + na
          /\ nb = 1 => /\ embed.fields[1][3] = "Before"
                        /\ WithinBound(embed.fields[1], embed.before, 500)
          /\ na = 1 => /\ embed.fields[nb + 1][3] = "After"
                        /\ WithinBound(embed.fields[nb + 1], embed.after, 500)

\* An edit from 501 characters to 500: "Before" is delivered as 497
\* characters and "...", "After" as it is.
C21_Witness ==
  /\ embed.h = "on_message_edit"
  /\ Len(embed.before) = 501 /\ Len(embed.after) = 500
  /\ Len(Delivered(embed.fields[1])) = 500
  /\ Delivered(embed.fields[1])[500] = "."
  /\ Delivered(embed.fields[2]) = embed.after

\* The step in which a get that missed the cache finds no row (the SELECT
\* answering) ends the get with the caller's default and changes no cache
\* entry.
C22_MissStep ==
  \A p \in Procs :
    (/\ procs[p].op = "get" /\ procs[p].pc = "query" /\ procs'[p] # procs[p]
     /\ procs'[p].out = "ok" /\ cfg[RowOf(procs[p])] = NoRow)
      => (procs'[p].pc = "done" /\ procs'[p].res = procs[p].d /\ cache' = cache)

\* C22: a get that misses the cache and the store returns the caller's
\* default and writes nothing to the cache, whatever defaults earlier gets
\* of the key were given.
C22_DefaultNotCached == [][C22_MissStep]_vars

\* Two gets of one key that has no row ended with two different defaults,
\* each with its own, and the key has no cache entry.
C22_Witness ==
  \E p, q \in Procs :
    /\ Finished(p, "get") /\ Finished(q, "get") /\ RowOf(procs[p]) = RowOf(procs[q])
    /\ procs[p].out = "ok" /\ procs[q].out = "ok" /\ ~procs[p].hit /\ ~procs[q].hit
    /\ procs[p].d # procs[q].d
    /\ procs[p].res = procs[p].d /\ procs[q].res = procs[q].d
    /\ cfg[RowOf(procs[p])] = NoRow
    /\ cache[CfgCacheKey(procs[p].ns, procs[p].t, procs[p].k)] = Absent

\* The step of a get_all changes no cache entry, and when its SELECT
\* answers its result has one entry per row of the guild in that table,
\* the row's JSON text decoded.
C23_GetAllStep ==
  \A p \in Procs :
    (procs'[p] # procs[p] /\ procs'[p].op = "get_all")
      => /\ cache' = cache
         /\ procs'[p].out = "ok" =>
              LET me == procs'[p]
              IN /\ DOMAIN me.rmap = {k \in ConfigKeys : cfg[<<me.ns, me.t, k>>] # NoRow}
                 /\ \A k \in DOMAIN me.rmap : json_dumps(me.rmap[k]) = cfg[<<me.ns, me.t, k>>]

\* C23: get_all_guild_config and get_all_botdetect_config return the rows
\* of the store as they are when the call runs, whatever the cache holds,
\* and leave the cache as it was.
C23_GetAllReadsStore == [][C23_GetAllStep]_vars

\* A get_all returned the stored value of a key whose cache entry holds
\* another value.
C23_Witness ==
  \E p \in Procs, k \in UserKeys :
    LET me == procs[p]
        entry == cache[CfgCacheKey(me.ns, me.t, k)]
    IN /\ Finished(p, "get_all") /\ me.out = "ok"
       /\ k \in DOMAIN me.rmap /\ json_dumps(me.rmap[k]) = cfg[<<me.ns, me.t, k>>]
       /\ entry # Absent /\ entry # me.rmap[k]

\* C24: with the cache available, a get_log_event_enabled that finds the
\* toggle's row in the store had missed the cache and populates it: its
\* step adds a cache entry.
C24_ToggleReadFillsCache ==
  [][\A p \in Procs :
      (/\ procs'[p] # procs[p] /\ procs'[p].op = "get_toggle"
       /\ cacheUp /\ procs'[p].out = "ok"
       /\ toggles[<<procs'[p].t, procs'[p].k>>] # Absent)
        => \E c \in CacheKeys : cache[c] = Absent /\ cache'[c] # Absent]_vars

\* C25: no session is replaced while it is open, and once cog_unload has
\* run no session is open.
C25_OneSessionReleased ==
  /\ life.orphans = 0
  /\ ~loaded => session # "open"

\* C26: a listener run makes at most one webhook send, and a run whose
\* send failed has ended after that one send.
C26_NoRetry ==
  \A e \in EvProcs :
    /\ evs[e].sent <= 1
    /\ evs[e].exc \notin {"none", "ok"} => (evs[e].pc = "done" /\ evs[e].sent = 1)

\* A listener run ended after its one send failed with an HTTP error.
C26_Witness ==
  \E e \in EvProcs :
    /\ evs[e].pc = "done" /\ evs[e].status = "failed"
    /\ evs[e].exc = "HTTPException" /\ evs[e].sent = 1

\* The step in which a set or a set_log_event_enabled runs its upsert: when
\* the upsert succeeds the key's row holds the new value and every other
\* row is as it was, otherwise no row changes; no other step changes a row;
\* the cache write of a set leaves an entry that already holds the value as
\* it is.
C27_UpsertStep ==
  /\ \A p \in Procs :
       (ops' = ops + 1 /\ procs'[p] # procs[p] /\ procs'[p].op = "set")
         => LET me == procs'[p]
            IN IF me.out = "ok"
               THEN /\ DOMAIN cfg' = DOMAIN cfg
                    /\ cfg'[RowOf(me)] = json_dumps(me.v)
                    /\ \A r \in DOMAIN cfg \ {RowOf(me)} : cfg'[r] = cfg[r]
                    /\ cfg[RowOf(me)] = json_dumps(me.v) => cfg' = cfg
               ELSE cfg' = cfg
  /\ \A p \in Procs :
       (ops' = ops + 1 /\ procs'[p] # procs[p] /\ procs'[p].op = "set_toggle")
         => LET me == procs'[p]
            IN IF me.out = "ok"
               THEN /\ DOMAIN toggles' = DOMAIN toggles
                    /\ toggles'[<<me.t, me.k>>] = me.v
                    /\ \A r \in DOMAIN toggles \ {<<me.t, me.k>>} : toggles'[r] = toggles[r]
               ELSE toggles' = toggles
  /\ cfg' # cfg => \E p \in Procs : ops' = ops + 1 /\ procs'[p].op = "set" /\ procs'[p].out = "ok"
  /\ toggles' # toggles
       => \E p \in Procs : ops' = ops + 1 /\ procs'[p].op = "set_toggle" /\ procs'[p].out = "ok"
  /\ \A p \in Procs :
       (/\ procs[p].op = "set" /\ procs[p].pc = "set_cache" /\ procs'[p] # procs[p]
        /\ cache[CfgCacheKey(procs[p].ns, procs[p].t, procs[p].k)] = procs[p].v)
         => cache' = cache

\* C27: under any interleaving of sets each key has one row, which holds
\* the value of the upsert that ran last, and a set repeated with the same
\* value leaves the store and the cache as the first left them.
C27_LastWriterWins == [][C27_UpsertStep]_vars

\* Two callers ran the same set of one key, both returned True, and the
\* row and the cache entry hold that value.
C27_Witness ==
  \E p, q \in Procs :
    /\ p # q /\ Finished(p, "set") /\ Finished(q, "set")
    /\ RowOf(procs[p]) = RowOf(procs[q]) /\ procs[p].v = procs[q].v
    /\ procs[p].res = PyTrue /\ procs[q].res = PyTrue
    /\ cfg[RowOf(procs[p])] = json_dumps(procs[p].v)
    /\ cache[CfgCacheKey(procs[p].ns, procs[p].t, procs[p].k)] = procs[p].v

\* The steps of log_toggle.  The lookup of a flip changes no row and
\* chooses the negation of what it returned: of the row's flag when the
\* store answered and the key has a row, of True otherwise.  The save of a
\* flip writes that status or, failing, nothing.  With a status given the
\* command writes the status its reply names.
C28_ToggleStep ==
  /\ (cmd' # cmd /\ cmd'.c = "log_toggle" /\ cmd'.pc = "save")
       => /\ toggles' = toggles
          /\ cmd'.new = IF cmd'.out = "ok" THEN PyBool(toggles[<<cmd'.t, cmd'.ek>>] = PyFalse)
                        ELSE PyFalse
  /\ (cmd' # cmd /\ cmd.c = "log_toggle" /\ cmd.pc = "save")
       => /\ cmd'.pc = "done" /\ cmd'.reply \in {"updated", "update_failed"}
          /\ toggles' = IF cmd'.reply = "updated"
                        THEN [toggles EXCEPT ![<<cmd.t, cmd.ek>>] = cmd.new] ELSE toggles
  /\ (cmd' # cmd /\ cmd.pc # "save" /\ cmd'.c = "log_toggle" /\ cmd'.reply = "updated")
       => /\ cmd'.new \in {PyTrue, PyFalse}
          /\ toggles' = [toggles EXCEPT ![<<cmd'.t, cmd'.ek>>] = cmd'.new]

\* C28: log_toggle without a status stores the negation of what the lookup
\* with default True returned when it ran, so that a never-toggled key
\* becomes disabled and a disabled key enabled; with a status it stores
\* that status.
C28_FlipNegates == [][C28_ToggleStep]_vars

\* A key that a command had disabled is enabled again after a command
\* stored enabled for it.
C28_Witness ==
  /\ cmd.c = "log_toggle" /\ cmd.pc = "done" /\ cmd.reply = "updated"
  /\ cmd.new = PyTrue /\ toggles[<<cmd.t, cmd.ek>>] = PyTrue
  /\ <<cmd.t, cmd.ek>> \in disabledOnce

\* The step in which log_toggle ends.  The key it handled is the typed key
\* in lower case; it replies with an error exactly for a key outside
\* ALL_EVENT_KEYS, and then it has made no store call; for a valid key it
\* replies success with the status now in the key's row, or failure with
\* every row as it was.
C29_ReplyStep ==
  /\ (cmd' # cmd /\ cmd'.c = "log_toggle" /\ cmd'.pc = "done")
       => /\ cmd'.ek \in {"message_delete", "no_such_key"}
          /\ cmd'.reply \in {"invalid_key", "updated", "update_failed"}
          /\ cmd'.reply = "invalid_key" <=> cmd'.ek \notin ALL_EVENT_KEYS
          /\ cmd'.reply = "invalid_key" => (cmd.pc # "save" /\ toggles' = toggles)
          /\ cmd'.reply = "updated"
               => (cmd'.new \in {PyTrue, PyFalse} /\ toggles'[<<cmd'.t, cmd'.ek>>] = cmd'.new)
          /\ cmd'.reply = "update_failed" => toggles' = toggles
  /\ toggles' # toggles => (cmd'.c = "log_toggle" /\ cmd'.pc = "done" /\ cmd'.reply = "updated")

\* C29: log_toggle reports an error and writes nothing for a key that is
\* not a valid event key once lower-cased, and for a valid key reports
\* success exactly when the toggle was stored, failure otherwise.
C29_ExplicitOutcome == [][C29_ReplyStep]_vars

\* A log_toggle for a valid key reported failure, and the key's row still
\* holds the status an earlier command stored.
C29_Witness ==
  /\ cmd.c = "log_toggle" /\ cmd.pc = "done" /\ cmd.reply = "update_failed"
  /\ cmd.ek \in ALL_EVENT_KEYS
  /\ toggles[<<cmd.t, cmd.ek>>] # Absent

\* C30: the audit correlation check returns True when the fetch is refused
\* for lack of permission, False when it fails otherwise, and when it
\* answers returns True exactly if the newest entry of the action has the
\* given target and is at most max_age seconds old, whatever older entries
\* hold.
C30_LatestEntryOnly ==
  audit.h # "none" =>
    LET mine == {i \in DOMAIN audit.log : audit.log[i].action = audit.action}
        newest == CHOOSE i \in mine : \A j \in mine : i <= j
    IN audit.res <=>
         \/ audit.out = "Forbidden"
         \/ /\ audit.out = "ok" /\ mine # {}
            /\ audit.log[newest].target = audit.target_id
            /\ audit.log[newest].age <= audit.max_age

\* The check answered False with the default max_age although the older of
\* two entries of the action has the target and is recent enough: the
\* newest has another target.
C30_Witness ==
  /\ audit.h # "none" /\ audit.out = "ok" /\ ~audit.res /\ audit.max_age = DefaultMaxAge
  /\ Len(audit.log) = 2
  /\ audit.log[1].action = audit.action /\ audit.log[2].action = audit.action
  /\ audit.log[1].target # audit.target_id
  /\ audit.log[2].target = audit.target_id /\ audit.log[2].age <= audit.max_age

\* The step of a webhook send, and the step after a failed one.  A send
\* changes no row, no cache entry and not the session; a send that failed
\* ends the run after that one call.  The run that follows a failed run
\* starts from nothing the failed one left: it has made no send yet and
\* goes on to the toggle check, unless its event is not eligible or its
\* lookup of the target ended it.
C31_SendStep ==
  \A e \in EvProcs :
    /\ (evs[e].pc = "send" /\ evs'[e] # evs[e])
         => /\ cfg' = cfg /\ toggles' = toggles /\ cache' = cache
            /\ session' = session /\ loaded' = loaded
            /\ evs'[e].sent = evs[e].sent + 1
            /\ evs'[e].exc # "ok"
                 => (evs'[e].pc = "done" /\ evs'[e].status = "failed" /\ evs'[e].sent = 1)
    /\ (evs[e].pc = "done" /\ evs[e].status = "failed" /\ evs'[e] # evs[e])
         => /\ evs'[e].sent = 0 /\ evs'[e].exc = "none"
            /\ evs'[e].had = (cfg[<<"setting", evs'[e].t, WebhookKey>>] \in
                                {json_dumps(PyStr(u)) : u \in Urls})
            /\ \/ evs'[e].pc = "toggle"
               \/ evs'[e].pc = "done" /\ evs'[e].status \in {"ineligible", "no_target"}

\* C31: a failed delivery leaves the guild's webhook URL and every toggle
\* as they were, and the guild's next event is taken up like any other and
\* makes at most one send.
C31_FailureLeavesTarget == [][C31_SendStep]_vars

\* A run ended after its one send found the webhook gone; the guild's URL
\* is still stored and the key is not disabled.
C31_Witness ==
  \E e \in EvProcs :
    /\ evs[e].pc = "done" /\ evs[e].status = "failed" /\ evs[e].exc = "NotFound"
    /\ evs[e].sent = 1 /\ HasTarget(evs[e].t)
    /\ toggles[<<evs[e].t, evs[e].ek>>] # PyFalse

\* A run whose session check found the session absent or closed has made
\* no send, has ended as skipped and raised nothing; only a run that found
\* it open goes on to the lookup and the send.
C32_NoSessionNoSend ==
  \A e \in EvProcs :
    LET me == evs[e]
    IN /\ (me.pc \in {"lookup", "send"} \/ me.sent > 0) => me.sess = "open"
       /\ (me.pc = "done" /\ me.status = "no_session")
            => (me.sess \in {"none", "closed"} /\ me.sent = 0 /\ ~me.raised)
       /\ (me.pc = "done" /\ me.status \in {"sent", "failed", "no_target_at_send"})
            => me.sess = "open"

\* Once the cog is unloaded no listener takes a new event: only runs
\* already under way move.
C32_UnloadedStep ==
  \A e \in EvProcs :
    (~loaded /\ evs'[e] # evs[e]) => evs[e].pc \notin {"idle", "done"}

C33_TargetReadAtDelivery ==
  [][\A e \in EvProcs :
      (/\ evs[e].pc = "lookup" /\ evs'[e] # evs[e]
       /\ \A p \in Procs : ~(procs[p].op = "set" /\ procs[p].pc = "set_cache"))
        => (evs'[e].pc = "send"
              => /\ evs'[e].url \in {PyStr(u) : u \in Urls}
                 /\ cfg[<<"setting", evs[e].t, WebhookKey>>] = json_dumps(evs'[e].url))]_vars

\* C34: whatever the order of the startup task, on_ready and cog_unload,
\* poll_audit_log.start() is called only while the poller is not running.
C34_PollerStartedOnce == [][life'.starts > life.starts => ~life.poller]_vars

\* Both the startup task and on_ready ran initialize_cog to its end, and
\* the poller, running, was started once.
C34_Witness ==
  /\ life.task = "done" /\ life.lst = "done" /\ life.orphans = 1
  /\ life.poller /\ life.starts = 1

\* C35: when the bot is not in the guild and no on_guild_join or
\* initialize_audit_log_ids is suspended on the guild's audit log,
\* last_audit_log_ids has no entry for the guild.
C35_NoEntryForLeftGuild ==
  (/\ ~life.member /\ life.join # "fetch"
   /\ life.task # "ids_g" /\ life.lst # "ids_g")
    => life.ids = "absent"

\* C36: a save of the new webhook's URL that fails changes no row and no
\* cache entry, and the command then reports the failure and goes on to the
\* deletion of the webhook it created, ending without an exception.
C36_SaveFailureCleansUp ==
  [][/\ (cmd' # cmd /\ cmd.c = "log_channel" /\ cmd.pc = "save" /\ cmd'.pc = "cleanup")
          => (cfg' = cfg /\ cache' = cache)
     /\ (cmd' # cmd /\ cmd.c = "log_channel" /\ cmd.pc = "cleanup")
          => (cmd'.pc = "done" /\ cmd'.reply = "save_failed" /\ cfg' = cfg)]_vars

\* A message event outside a guild, by a bot or, for an edit, with the
\* content unchanged has ended as dropped, with no lookup made and nothing
\* sent.
C37_Dropped ==
  \A e \in EvProcs :
    LET me == evs[e]
        unfit == \/ ~me.payload.in_guild
                 \/ me.payload.author_bot
                 \/ me.ek = "message_edit" /\ me.payload.same_content
    IN /\ (me.pc # "idle" /\ unfit) => (me.pc = "done" /\ me.status = "ineligible")
       /\ (me.pc = "done" /\ me.status = "ineligible")
            => (me.sent = 0 /\ ~me.lost /\ ~me.raised /\ me.tog = Absent /\ me.url = PyNone)

\* The step that drops an event changes no cache entry and adds no send.
C37_DropStep ==
  \A e \in EvProcs :
    (evs'[e] # evs[e] /\ evs'[e].status = "ineligible") => (cache' = cache /\ calls' = calls)

\* C37: on_message_delete for a message without guild or by a bot, and
\* on_message_edit for one without guild, by a bot or with unchanged
\* content, return before any lookup and any send.
C37_IneligibleDropped == [](C37_Dropped) /\ [][C37_DropStep]_vars

\* An edit of a guild message by a user, the content unchanged, was
\* dropped for a guild that has a target while the session was open.
C37_Witness ==
  \E e \in EvProcs :
    /\ evs[e].pc = "done" /\ evs[e].status = "ineligible" /\ evs[e].ek = "message_edit"
    /\ evs[e].payload = [in_guild |-> TRUE, author_bot |-> FALSE, same_content |-> TRUE]
    /\ evs[e].had /\ session = "open"

\* Cache keys of distinct (namespace, guild, key) triples differ, no
\* configuration key is a credential key, and credential keys of distinct
\* guilds differ.
C38_KeysDistinct ==
  /\ \A r1, r2 \in DOMAIN cfg :
       r1 # r2 => CfgCacheKey(r1[1], r1[2], r1[3]) # CfgCacheKey(r2[1], r2[2], r2[3])
  /\ \A r \in DOMAIN cfg, t \in DOMAIN creds :
       CfgCacheKey(r[1], r[2], r[3]) # ApiCacheKey(t)
  /\ \A t1, t2 \in DOMAIN creds : t1 # t2 => ApiCacheKey(t1) # ApiCacheKey(t2)

\* A step of a set, set_log_event_enabled, set_guild_api_key or
\* remove_guild_api_key call changes no row and no cache entry other than
\* those of the call's own guild (for a set: namespace, guild and key; for a
\* toggle: guild and event key).
C38_IsolationStep ==
  \A p \in Procs :
    (procs'[p] # procs[p] /\ procs'[p].op \in {"set", "set_toggle", "set_key", "remove_key"})
      => LET me == procs'[p]
         IN /\ \A r \in DOMAIN cfg :
                 (me.op # "set" \/ r # <<me.ns, me.t, me.k>>)
                   => /\ cfg'[r] = cfg[r]
                      /\ cache'[CfgCacheKey(r[1], r[2], r[3])] = cache[CfgCacheKey(r[1], r[2], r[3])]
            /\ \A r \in DOMAIN toggles :
                 (me.op # "set_toggle" \/ r # <<me.t, me.k>>) => toggles'[r] = toggles[r]
            /\ \A t \in DOMAIN creds :
                 (me.op \notin {"set_key", "remove_key"} \/ t # me.t)
                   => /\ creds'[t] = creds[t]
                      /\ cache'[ApiCacheKey(t)] = cache[ApiCacheKey(t)]

\* C38: the setters of the configuration tables, of the toggles and of the
\* credentials touch the rows and cache entries of their own guild,
\* namespace and key only, and the cache keys of distinct (namespace, guild,
\* key) triples never coincide.
C38_TenantIsolation == [](C38_KeysDistinct) /\ [][C38_IsolationStep]_vars

\* The same key of the same namespace holds different values, stored and
\* cached, for the two guilds: the set for guild 2 left guild 1's alone.
C38_Witness ==
  /\ cfg[<<"config", 1, "k">>] = json_dumps(PyInt("1"))
  /\ cfg[<<"config", 2, "k">>] = json_dumps(PyStr("1"))
  /\ cache[CfgCacheKey("config", 1, "k")] = PyInt("1")
  /\ cache[CfgCacheKey("config", 2, "k")] = PyStr("1")
  /\ \A p \in Procs : procs[p].pc = "done"

\* An event that ended has one of the terminal outcomes and raised nothing,
\* and an event in flight can take its next step whatever the other event
\* is doing.
C39_Outcome ==
  \A e \in DOMAIN evs :
    /\ evs[e].pc = "done"
         => /\ evs[e].status \in {"ineligible", "no_target", "disabled", "no_session",
                                  "no_target_at_send", "sent", "failed"}
            /\ ~evs[e].raised
    /\ evs[e].pc \in {"toggle", "lookup", "send"}
         => ENABLED (_check_log_enabled(e) \/ _send_log_embed(e) \/ WebhookSend(e))

\* C39: every event a listener took ends: skipped for want of a target, a
\* disabled key or a session, delivered, or dropped after a logged failure;
\* and no listener waits for another event to end.
C39_EveryEventEnds ==
  /\ [](C39_Outcome)
  /\ \A e \in {"e1", "e2"} : (evs[e].pc \in {"toggle", "lookup", "send"}) ~> (evs[e].pc = "done")

\* The second event was taken and delivered while the first was still
\* waiting for its send to return.
C39_Witness ==
  /\ evs["e1"].pc = "send"
  /\ evs["e2"].pc = "done" /\ evs["e2"].status = "sent"

====
